---- MODULE Spec2Model ----
(***************************************************************************)
(* A model of sql-check's query validator (crates/sql-check/src).          *)
(*                                                                         *)
(* Strings are sequences of characters, so that to_lowercase,              *)
(* eq_ignore_ascii_case, format! and strip_prefix are computed and not     *)
(* assumed.  Option<T> is a sequence of length 0 (None) or 1 (Some).       *)
(* A HashMap is a function; the order in which it is iterated is not       *)
(* fixed by the program and is a parameter (a permutation of its keys).    *)
(* Result<T> is a record with ok = TRUE and the value, or ok = FALSE and   *)
(* err.  The SQL parser is outside the model: the validator's input is     *)
(* the parser's output.                                                    *)
(***************************************************************************)
EXTENDS Integers, Sequences, FiniteSets, TLC

VARIABLES
    ddl,       \* the parser's output for the schema's DDL
    schema,    \* the catalog the query is validated against
    sql,       \* the parser's output for the SQL string
    pc,        \* the position of validate_query
    ctx,       \* the ResolveContext of the statement being validated
    iter,      \* the iteration order of ctx.table_aliases in this run
    next_cte,  \* index of the next CTE of the WITH clause
    next_from, \* index of the next TableWithJoins of the FROM clause
    next_item, \* index of the next item of the projection
    columns,   \* the columns pushed so far
    result,    \* the Result returned by validate_query, once pc = "done"
    type_name, \* the argument of a call of PostgresType::from_sql_name
    postgres_type, \* what the call returned (or that it panicked), once made
    text,      \* the characters of the string literal given to query!
    params,    \* the number of parameter expressions given to query!
    expansion  \* what query! expands to: a compile error or the struct's fields

vars == <<ddl, schema, sql, pc, ctx, iter, next_cte, next_from, next_item, columns, result,
          type_name, postgres_type, text, params, expansion>>

None == <<>>
Some(x) == <<x>>

Ok(cols) == [ok |-> TRUE, columns |-> cols]
Err(e) == [ok |-> FALSE, err |-> e]

Range(s) == {s[i] : i \in 1..Len(s)}

Perms(S) == {p \in [1..Cardinality(S) -> S] : \A i, j \in 1..Cardinality(S) : p[i] = p[j] => i = j}

EmptyMap == [k \in {} |-> <<>>]

insert(m, k, v) == [x \in (DOMAIN m) \cup {k} |-> IF x = k THEN v ELSE m[x]]

(***************************************************************************)
(* Strings                                                                 *)
(***************************************************************************)
AsciiUpper == <<"A","B","C","D","E","F","G","H","I","J","K","L","M",
                "N","O","P","Q","R","S","T","U","V","W","X","Y","Z">>
AsciiLower == <<"a","b","c","d","e","f","g","h","i","j","k","l","m",
                "n","o","p","q","r","s","t","u","v","w","x","y","z">>

to_ascii_lowercase_char(c) ==
    IF \E i \in 1..Len(AsciiUpper) : AsciiUpper[i] = c
    THEN AsciiLower[CHOOSE i \in 1..Len(AsciiUpper) : AsciiUpper[i] = c]
    ELSE c

\* char::to_lowercase: the ASCII letters and, of the others, the pair the
\* model's identifiers use.
to_lowercase_char(c) == IF c = "É" THEN "é" ELSE to_ascii_lowercase_char(c)

to_lowercase(s) == [i \in 1..Len(s) |-> to_lowercase_char(s[i])]

\* char::to_uppercase on the letters of the model's identifiers
to_uppercase_char(c) ==
    IF c = "é" THEN "É"
    ELSE IF \E i \in 1..Len(AsciiLower) : AsciiLower[i] = c
    THEN AsciiUpper[CHOOSE i \in 1..Len(AsciiLower) : AsciiLower[i] = c]
    ELSE c

to_uppercase(s) == [i \in 1..Len(s) |-> to_uppercase_char(s[i])]

eq_ignore_ascii_case(a, b) ==
    [i \in 1..Len(a) |-> to_ascii_lowercase_char(a[i])]
        = [i \in 1..Len(b) |-> to_ascii_lowercase_char(b[i])]

starts_with(s, prefix) ==
    Len(s) >= Len(prefix) /\ SubSeq(s, 1, Len(prefix)) = prefix

\* Option<&str>: the rest of s after prefix
strip_prefix(s, prefix) ==
    IF starts_with(s, prefix) THEN Some(SubSeq(s, Len(prefix) + 1, Len(s))) ELSE None

\* A u32 is a pair of 16-bit limbs, so that every value of the type has a
\* representation in the checker's integers.
TwoPow16 == 65536

u32(n) == [hi |-> n \div TwoPow16, lo |-> n % TwoPow16]

Digits == <<"0","1","2","3","4","5","6","7","8","9">>

is_digit(c) == \E i \in 1..Len(Digits) : Digits[i] = c

digit_value(c) == (CHOOSE i \in 1..Len(Digits) : Digits[i] = c) - 1

\* the digits of s from position i on, added to acc; None on overflow
RECURSIVE parse_digits(_, _, _)
parse_digits(s, i, acc) ==
    IF i > Len(s) THEN Some(acc)
    ELSE IF acc.hi * 10 + (acc.lo * 10 + digit_value(s[i])) \div TwoPow16 >= TwoPow16
    THEN None
    ELSE parse_digits(s, i + 1,
            [hi |-> acc.hi * 10 + (acc.lo * 10 + digit_value(s[i])) \div TwoPow16,
             lo |-> (acc.lo * 10 + digit_value(s[i])) % TwoPow16])

unsigned(s) == IF Len(s) > 0 /\ s[1] = "+" THEN Tail(s) ELSE s

\* str::parse::<u32>().ok(): an optional "+", then one digit or more
parse_u32(s) ==
    IF Len(unsigned(s)) = 0 \/ \E i \in 1..Len(unsigned(s)) : ~is_digit(unsigned(s)[i])
    THEN None
    ELSE parse_digits(unsigned(s), 1, u32(0))

Whitespace == {" ", "\t", "\n"}

RECURSIVE trim_start(_)
trim_start(s) ==
    IF Len(s) > 0 /\ s[1] \in Whitespace THEN trim_start(Tail(s)) ELSE s

RECURSIVE trim_end(_)
trim_end(s) ==
    IF Len(s) > 0 /\ s[Len(s)] \in Whitespace THEN trim_end(SubSeq(s, 1, Len(s) - 1)) ELSE s

trim(s) == trim_end(trim_start(s))

ends_with(s, suffix) ==
    Len(s) >= Len(suffix) /\ SubSeq(s, Len(s) - Len(suffix) + 1, Len(s)) = suffix

\* Option<&str>: s without suffix
strip_suffix(s, suffix) ==
    IF ends_with(s, suffix) THEN Some(SubSeq(s, 1, Len(s) - Len(suffix))) ELSE None

\* Option<usize>: the offset of the first c of s, counted from 0
find(s, c) ==
    IF \E i \in 1..Len(s) : s[i] = c
    THEN Some((CHOOSE i \in 1..Len(s) : s[i] = c /\ \A j \in 1..(i - 1) : s[j] # c) - 1)
    ELSE None

cte_prefix == <<"_", "c", "t", "e", ":">>
subquery_marker == <<"_", "s", "u", "b", "q", "u", "e", "r", "y">>

(***************************************************************************)
(* types.rs                                                                *)
(***************************************************************************)
RustOption(t) == [t |-> "Option", inner |-> t]

\* nullable removing the Option of a type that has one: C12_NullabilityMonotone
\* tells the two apart
nullable_toggles(t) == IF t.t = "Option" THEN t.inner ELSE RustOption(t)

\* nullable leaving a type that has an Option as it is: C28_OneMoreOption tells
\* the two apart
nullable_normalized(t) == IF t.t = "Option" THEN t ELSE RustOption(t)

nullable(t) == RustOption(t)

RECURSIVE to_rust_type(_)
to_rust_type(pg) ==
    CASE pg.t = "SmallInt" -> [t |-> "I16"]
      [] pg.t = "Integer" -> [t |-> "I32"]
      [] pg.t = "BigInt" -> [t |-> "I64"]
      [] pg.t = "Real" -> [t |-> "F32"]
      [] pg.t = "DoublePrecision" -> [t |-> "F64"]
      [] pg.t = "Numeric" -> [t |-> "Decimal"]
      [] pg.t \in {"Text", "Varchar", "Char"} -> [t |-> "String"]
      [] pg.t = "Bytea" -> [t |-> "VecU8"]
      [] pg.t = "Boolean" -> [t |-> "Bool"]
      [] pg.t \in {"Timestamp", "TimestampTz"} -> [t |-> "DateTime"]
      [] pg.t = "Date" -> [t |-> "Date"]
      [] pg.t \in {"Time", "TimeTz"} -> [t |-> "Time"]
      [] pg.t = "Interval" -> [t |-> "Duration"]
      [] pg.t = "Uuid" -> [t |-> "Uuid"]
      [] pg.t \in {"Json", "Jsonb"} -> [t |-> "JsonValue"]
      [] pg.t \in {"Inet", "Cidr"} -> [t |-> "IpAddr"]
      [] pg.t = "MacAddr" -> [t |-> "String"]
      [] pg.t = "Array" -> [t |-> "Vec", inner |-> to_rust_type(pg.inner)]
      [] pg.t = "Custom" -> [t |-> "Custom", name |-> pg.name]

\* the names from_sql_name matches whole, each with the type it names
SqlNames ==
    [SmallInt |-> {<<"s","m","a","l","l","i","n","t">>, <<"i","n","t","2">>},
     Integer |-> {<<"i","n","t","e","g","e","r">>,
                 <<"i","n","t">>,
                 <<"i","n","t","4">>},
     BigInt |-> {<<"b","i","g","i","n","t">>,
                 <<"i","n","t","8">>},
     Real |-> {<<"r","e","a","l">>,
                 <<"f","l","o","a","t","4">>},
     DoublePrecision |-> {<<"d","o","u","b","l","e"," ","p","r","e","c","i","s","i","o","n">>,
                 <<"f","l","o","a","t","8">>},
     Numeric |-> {<<"n","u","m","e","r","i","c">>,
                 <<"d","e","c","i","m","a","l">>},
     Text |-> {<<"t","e","x","t">>},
     Bytea |-> {<<"b","y","t","e","a">>},
     Boolean |-> {<<"b","o","o","l","e","a","n">>,
                 <<"b","o","o","l">>},
     Timestamp |-> {<<"t","i","m","e","s","t","a","m","p"," ","w","i","t","h","o","u","t"," ","t","i","m","e"," ","z","o","n","e">>,
                 <<"t","i","m","e","s","t","a","m","p">>},
     TimestampTz |-> {<<"t","i","m","e","s","t","a","m","p"," ","w","i","t","h"," ","t","i","m","e"," ","z","o","n","e">>,
                 <<"t","i","m","e","s","t","a","m","p","t","z">>},
     Date |-> {<<"d","a","t","e">>},
     Time |-> {<<"t","i","m","e"," ","w","i","t","h","o","u","t"," ","t","i","m","e"," ","z","o","n","e">>,
                 <<"t","i","m","e">>},
     TimeTz |-> {<<"t","i","m","e"," ","w","i","t","h"," ","t","i","m","e"," ","z","o","n","e">>,
                 <<"t","i","m","e","t","z">>},
     Interval |-> {<<"i","n","t","e","r","v","a","l">>},
     Uuid |-> {<<"u","u","i","d">>},
     Json |-> {<<"j","s","o","n">>},
     Jsonb |-> {<<"j","s","o","n","b">>},
     Inet |-> {<<"i","n","e","t">>},
     Cidr |-> {<<"c","i","d","r">>},
     MacAddr |-> {<<"m","a","c","a","d","d","r">>}]

s_character_varying == <<"c","h","a","r","a","c","t","e","r"," ","v","a","r","y","i","n","g">>
s_varchar == <<"v","a","r","c","h","a","r">>
s_character == <<"c","h","a","r","a","c","t","e","r">>
s_char == <<"c","h","a","r">>
s_array_suffix == <<" ","a","r","r","a","y">>
s_brackets == <<"[","]">>

Panic == [t |-> "panic"]

\* Option<u32>, or the panic of the slice s[start + 1..end] when end is
\* before start + 1
parse_length(s) ==
    IF find(s, "(") # None /\ find(s, ")") # None
    THEN IF find(s, "(")[1] + 1 > find(s, ")")[1]
         THEN Panic
         ELSE [t |-> "returned",
               len |-> parse_u32(SubSeq(s, find(s, "(")[1] + 2, find(s, ")")[1]))]
    ELSE [t |-> "returned", len |-> None]

\* the arms of the match of from_sql_name on the lower-cased, trimmed name
match_sql_name(s) ==
    IF \E t \in DOMAIN SqlNames : s \in SqlNames[t]
    THEN [t |-> CHOOSE t \in DOMAIN SqlNames : s \in SqlNames[t]]
    ELSE IF s \in {s_character_varying, s_varchar} THEN [t |-> "Varchar", len |-> None]
    ELSE IF s \in {s_character, s_char} THEN [t |-> "Char", len |-> None]
    ELSE IF starts_with(s, s_character_varying) \/ starts_with(s, s_varchar)
    THEN IF parse_length(s).t = "panic" THEN Panic
         ELSE [t |-> "Varchar", len |-> parse_length(s).len]
    ELSE IF starts_with(s, s_character) \/ starts_with(s, s_char)
    THEN IF parse_length(s).t = "panic" THEN Panic
         ELSE [t |-> "Char", len |-> parse_length(s).len]
    ELSE [t |-> "Custom", name |-> s]

\* Box::new(element_type): a panic of the inner call ends the outer one
array_of(element_type) ==
    IF element_type.t = "panic" THEN Panic ELSE [t |-> "Array", inner |-> element_type]

\* PostgresType, or Panic where the call does not return
RECURSIVE from_sql_name(_)
from_sql_name(name) ==
    IF ends_with(trim(to_lowercase(name)), s_brackets)
    THEN array_of(from_sql_name(SubSeq(trim(to_lowercase(name)), 1,
                                       Len(trim(to_lowercase(name))) - 2)))
    ELSE IF strip_suffix(trim(to_lowercase(name)), s_array_suffix) # None
    THEN array_of(from_sql_name(strip_suffix(trim(to_lowercase(name)), s_array_suffix)[1]))
    ELSE match_sql_name(trim(to_lowercase(name)))

(***************************************************************************)
(* schema.rs                                                               *)
(***************************************************************************)
Column(name, data_type, is_nullable) ==
    [name |-> name, data_type |-> data_type, nullable |-> is_nullable,
     has_default |-> FALSE, is_primary_key |-> FALSE, is_unique |-> FALSE]

\* column_map as Table::from_create_table fills it: a later column of the
\* same lower-cased name overwrites an earlier one
column_map_of(cols) ==
    [k \in {to_lowercase(cols[i].name) : i \in 1..Len(cols)} |->
        CHOOSE i \in 1..Len(cols) :
            /\ to_lowercase(cols[i].name) = k
            /\ \A j \in 1..Len(cols) : to_lowercase(cols[j].name) = k => j <= i]

Table(name, cols) == [name |-> name, columns |-> cols, column_map |-> column_map_of(cols)]

\* Option<&Column>
get_column(table, name) ==
    IF to_lowercase(name) \in DOMAIN table.column_map
    THEN Some(table.columns[table.column_map[to_lowercase(name)]])
    ELSE None

has_column(table, name) == get_column(table, name) # None

\* Option<&Table>, every outcome: the exact key first, then the first table
\* in the iteration order of the map whose lower-cased name matches.  The
\* order is not fixed, so each match can be the first.
get_table_results(s, name) ==
    IF name \in DOMAIN s.tables
    THEN {Some(s.tables[name])}
    ELSE IF \A k \in DOMAIN s.tables : to_lowercase(s.tables[k].name) # to_lowercase(name)
    THEN {None}
    ELSE {Some(s.tables[k]) :
             k \in {x \in DOMAIN s.tables :
                       to_lowercase(s.tables[x].name) = to_lowercase(name)}}

\* Option<&Table>.  Where the catalog holds two names equal under case
\* folding, the queries of this model spell a table's name as one of the
\* keys, so the second search has at most one match where it runs.
get_table(s, name) == CHOOSE r \in get_table_results(s, name) : TRUE

has_table(s, name) == get_table(s, name) # None

(***************************************************************************)
(* error.rs                                                                *)
(***************************************************************************)
QueryParse == [kind |-> "QueryParse"]
\* UnknownTable raised as the loader's error: C23_ErrorKinds tells the two apart
UnknownTable_as_SchemaParse(name) == [kind |-> "SchemaParse", name |-> name]

UnknownTable(name) == [kind |-> "UnknownTable", name |-> name]
UnknownColumn(table, column) == [kind |-> "UnknownColumn", table |-> table, column |-> column]
AmbiguousColumn(name) == [kind |-> "AmbiguousColumn", name |-> name]
InvalidQuery(msg) == [kind |-> "InvalidQuery", msg |-> msg]

unknown_marker == <<"<", "u", "n", "k", "n", "o", "w", "n", ">">>

(***************************************************************************)
(* schema.rs: the loader.  Its input is the parser's output for the DDL.   *)
(***************************************************************************)
SchemaParse == [kind |-> "SchemaParse"]

\* Option<u32> of an Option<CharacterLength>.  The lengths of the model's
\* DDL are below 2^31, where `length as u32` keeps the value.
extract_char_length(len) ==
    IF len = None THEN None
    ELSE IF len[1].kind = "IntegerLength" THEN Some(u32(len[1].length))
    ELSE None

\* ObjectName to String: every part, joined by "."
RECURSIVE object_name_to_string(_)
object_name_to_string(name) ==
    IF Len(name) = 0 THEN <<>>
    ELSE IF Len(name) = 1 THEN name[1].value
    ELSE name[1].value \o <<".">> \o object_name_to_string(Tail(name))

WithTz(tz) == tz \in {"WithTimeZone", "Tz"}

\* Result<PostgresType> of a sqlparser DataType
RECURSIVE data_type_to_postgres(_)
data_type_to_postgres(dt) ==
    CASE dt.dt = "SmallInt" -> [ok |-> TRUE, type |-> [t |-> "SmallInt"]]
      [] dt.dt \in {"Int", "Integer"} -> [ok |-> TRUE, type |-> [t |-> "Integer"]]
      [] dt.dt = "BigInt" -> [ok |-> TRUE, type |-> [t |-> "BigInt"]]
      [] dt.dt = "Real" -> [ok |-> TRUE, type |-> [t |-> "Real"]]
      [] dt.dt \in {"Double", "DoublePrecision"} -> [ok |-> TRUE, type |-> [t |-> "DoublePrecision"]]
      [] dt.dt \in {"Numeric", "Decimal"} -> [ok |-> TRUE, type |-> [t |-> "Numeric"]]
      [] dt.dt = "Text" -> [ok |-> TRUE, type |-> [t |-> "Text"]]
      [] dt.dt \in {"Varchar", "CharacterVarying"} ->
            [ok |-> TRUE, type |-> [t |-> "Varchar", len |-> extract_char_length(dt.len)]]
      [] dt.dt \in {"Char", "Character"} ->
            [ok |-> TRUE, type |-> [t |-> "Char", len |-> extract_char_length(dt.len)]]
      [] dt.dt = "Bytea" -> [ok |-> TRUE, type |-> [t |-> "Bytea"]]
      [] dt.dt \in {"Boolean", "Bool"} -> [ok |-> TRUE, type |-> [t |-> "Boolean"]]
      [] dt.dt = "Timestamp" ->
            [ok |-> TRUE, type |-> [t |-> IF WithTz(dt.tz) THEN "TimestampTz" ELSE "Timestamp"]]
      [] dt.dt = "Date" -> [ok |-> TRUE, type |-> [t |-> "Date"]]
      [] dt.dt = "Time" ->
            [ok |-> TRUE, type |-> [t |-> IF WithTz(dt.tz) THEN "TimeTz" ELSE "Time"]]
      [] dt.dt = "Interval" -> [ok |-> TRUE, type |-> [t |-> "Interval"]]
      [] dt.dt = "Uuid" -> [ok |-> TRUE, type |-> [t |-> "Uuid"]]
      [] dt.dt = "JSON" -> [ok |-> TRUE, type |-> [t |-> "Json"]]
      [] dt.dt = "JSONB" -> [ok |-> TRUE, type |-> [t |-> "Jsonb"]]
      [] dt.dt = "Array" ->
            IF dt.elem.def = "None" THEN Err(SchemaParse)
            ELSE IF data_type_to_postgres(dt.elem.inner).ok
            THEN [ok |-> TRUE,
                  type |-> [t |-> "Array", inner |-> data_type_to_postgres(dt.elem.inner).type]]
            ELSE data_type_to_postgres(dt.elem.inner)
      [] dt.dt = "Custom" ->
            [ok |-> TRUE, type |-> [t |-> "Custom", name |-> object_name_to_string(dt.name)]]
      [] OTHER -> [ok |-> TRUE, type |-> [t |-> "Custom", name |-> dt.debug]]

\* one iteration of the loop of Column::from_column_def over col_def.options
apply_option(column, option) ==
    CASE option = "NotNull" -> [column EXCEPT !.nullable = FALSE]
      [] option = "Null" -> [column EXCEPT !.nullable = TRUE]
      [] option = "Default" -> [column EXCEPT !.has_default = TRUE]
      [] option = "PrimaryKey" -> [column EXCEPT !.is_primary_key = TRUE, !.nullable = FALSE]
      [] option = "Unique" -> [column EXCEPT !.is_unique = TRUE]
      [] OTHER -> column

RECURSIVE apply_options(_, _)
apply_options(column, options) ==
    IF Len(options) = 0 THEN column
    ELSE apply_options(apply_option(column, Head(options)), Tail(options))

\* the Column of a definition whose data type converted to r
column_of_type(r, col_def) ==
    IF r.ok
    THEN [ok |-> TRUE,
          column |-> apply_options(Column(col_def.name.value, r.type, TRUE), col_def.options)]
    ELSE r

\* Result<Column>
from_column_def(col_def) ==
    column_of_type(data_type_to_postgres(col_def.data_type), col_def)

\* the columns a PRIMARY KEY or UNIQUE constraint finds: indices into columns
constraint_indices(constraint, column_map) ==
    {column_map[to_lowercase(constraint.columns[j].ident.value)] :
        j \in {i \in 1..Len(constraint.columns) :
                  /\ constraint.columns[i].expr = "Identifier"
                  /\ to_lowercase(constraint.columns[i].ident.value) \in DOMAIN column_map}}

\* one iteration of the second pass of Table::from_create_table
apply_constraint(cols, column_map, constraint) ==
    CASE constraint.constraint = "PrimaryKey" ->
            [i \in 1..Len(cols) |->
                IF i \in constraint_indices(constraint, column_map)
                THEN [cols[i] EXCEPT !.is_primary_key = TRUE, !.nullable = FALSE]
                ELSE cols[i]]
      [] constraint.constraint = "Unique" ->
            [i \in 1..Len(cols) |->
                IF i \in constraint_indices(constraint, column_map)
                THEN [cols[i] EXCEPT !.is_unique = TRUE]
                ELSE cols[i]]
      [] OTHER -> cols

RECURSIVE apply_constraints(_, _, _)
apply_constraints(cols, column_map, constraints) ==
    IF Len(constraints) = 0 THEN cols
    ELSE apply_constraints(apply_constraint(cols, column_map, Head(constraints)),
                           column_map, Tail(constraints))

\* the first pass of Table::from_create_table from definition i on: the
\* first definition that fails fails the table
RECURSIVE columns_from(_, _, _)
push_column(r, column_defs, i, cols) ==
    IF r.ok THEN columns_from(column_defs, i + 1, Append(cols, r.column)) ELSE r

columns_from(column_defs, i, cols) ==
    IF i > Len(column_defs) THEN [ok |-> TRUE, columns |-> cols]
    ELSE push_column(from_column_def(column_defs[i]), column_defs, i, cols)

\* the Table of a statement whose column definitions converted to r
table_of_columns(r, create) ==
    IF r.ok
    THEN [ok |-> TRUE,
          table |-> [name |-> object_name_to_string(create.name),
                     columns |-> apply_constraints(r.columns, column_map_of(r.columns),
                                                   create.constraints),
                     column_map |-> column_map_of(r.columns)]]
    ELSE r

\* Result<Table>
from_create_table(create) == table_of_columns(columns_from(create.columns, 1, <<>>), create)

\* the loop of Schema::from_sql from statement i on
RECURSIVE from_statements(_, _, _)
insert_table(r, statements, i, s) ==
    IF r.ok
    THEN from_statements(statements, i + 1,
                         [s EXCEPT !.tables = insert(s.tables, r.table.name, r.table)])
    ELSE r

from_statements(statements, i, s) ==
    IF i > Len(statements) THEN [ok |-> TRUE, schema |-> s]
    ELSE IF statements[i].stmt # "CreateTable" THEN from_statements(statements, i + 1, s)
    ELSE insert_table(from_create_table(statements[i]), statements, i, s)

Schema_new == [tables |-> EmptyMap]

\* Result<Schema>
from_sql(d) ==
    IF ~d.parse_ok THEN Err(SchemaParse)
    ELSE from_statements(d.statements, 1, Schema_new)

(***************************************************************************)
(* validate.rs: ResolveContext                                             *)
(***************************************************************************)
ResolveContext_default ==
    [table_aliases |-> EmptyMap, nullable_tables |-> <<>>, cte_definitions |-> EmptyMap]

is_nullable_table(c, table) ==
    \E i \in 1..Len(c.nullable_tables) : eq_ignore_ascii_case(c.nullable_tables[i], table)

mark_nullable(c, table) ==
    LET lower == to_lowercase(table)
    IN IF \E i \in 1..Len(c.nullable_tables) : c.nullable_tables[i] = lower
       THEN c
       ELSE [c EXCEPT !.nullable_tables = Append(@, lower)]

\* Option<&CteDefinition>
get_cte(c, name) ==
    IF to_lowercase(name) \in DOMAIN c.cte_definitions
    THEN Some(c.cte_definitions[to_lowercase(name)])
    ELSE None

add_cte(c, name, cols) ==
    [c EXCEPT !.cte_definitions = insert(@, to_lowercase(name), [columns |-> cols])]

(***************************************************************************)
(* validate.rs: FROM resolution                                            *)
(***************************************************************************)
\* name.0.last().and_then(|part| part.as_ident()).map(|i| i.value.clone())
last_ident_value(name) == IF Len(name) = 0 THEN None ELSE Some(name[Len(name)].value)

\* Option<String>
get_table_alias(factor) ==
    CASE factor.factor = "Table" ->
            IF factor.alias # None THEN Some(factor.alias[1].value)
            ELSE last_ident_value(factor.name)
      [] factor.factor = "Derived" /\ factor.alias # None -> Some(factor.alias[1].value)
      [] OTHER -> None

\* Result<()>: on success the context with the factor registered
resolve_table_factor(s, factor, c) ==
    CASE factor.factor = "Table" ->
            IF last_ident_value(factor.name) = None
            THEN Err(InvalidQuery(<<"Empty table name">>))
            ELSE LET table_name == last_ident_value(factor.name)[1]
                     alias_name == IF factor.alias # None THEN factor.alias[1].value
                                   ELSE table_name
                 IN IF get_cte(c, table_name) # None
                    THEN [ok |-> TRUE,
                          ctx |-> [c EXCEPT !.table_aliases =
                                       insert(@, to_lowercase(alias_name),
                                              cte_prefix \o to_lowercase(table_name))]]
                    ELSE IF ~has_table(s, table_name)
                         THEN Err(UnknownTable(table_name))
                         ELSE [ok |-> TRUE,
                               ctx |-> [c EXCEPT !.table_aliases =
                                            insert(@, to_lowercase(alias_name), table_name)]]
      [] factor.factor = "Derived" /\ factor.alias # None ->
            [ok |-> TRUE,
             ctx |-> [c EXCEPT !.table_aliases =
                          insert(@, to_lowercase(factor.alias[1].value), subquery_marker)]]
      [] OTHER -> [ok |-> TRUE, ctx |-> c]

LeftJoins == {"Left", "LeftOuter", "LeftSemi", "LeftAnti"}
RightJoins == {"Right", "RightOuter", "RightSemi", "RightAnti"}

mark_some(c, alias) == IF alias # None THEN mark_nullable(c, alias[1]) ELSE c

\* resolve_join with the RIGHT joins marking the joined relation instead of
\* the leftmost one: C1_JoinMarks tells the two apart
resolve_join_right_marks_joined(s, join, first_table_alias, c) ==
    LET r == resolve_table_factor(s, join.relation, c)
    IN IF ~r.ok THEN r
       ELSE CASE join.join_operator \in LeftJoins \cup RightJoins ->
                    [ok |-> TRUE, ctx |-> mark_some(r.ctx, get_table_alias(join.relation))]
              [] join.join_operator = "FullOuter" ->
                    [ok |-> TRUE,
                     ctx |-> mark_some(mark_some(r.ctx, first_table_alias),
                                       get_table_alias(join.relation))]
              [] OTHER -> r

\* one iteration of the loop over twj.joins
resolve_join(s, join, first_table_alias, c) ==
    LET r == resolve_table_factor(s, join.relation, c)
    IN IF ~r.ok THEN r
       ELSE CASE join.join_operator \in LeftJoins ->
                    [ok |-> TRUE, ctx |-> mark_some(r.ctx, get_table_alias(join.relation))]
              [] join.join_operator \in RightJoins ->
                    [ok |-> TRUE, ctx |-> mark_some(r.ctx, first_table_alias)]
              [] join.join_operator = "FullOuter" ->
                    [ok |-> TRUE,
                     ctx |-> mark_some(mark_some(r.ctx, first_table_alias),
                                       get_table_alias(join.relation))]
              [] OTHER -> r

RECURSIVE resolve_joins(_, _, _, _, _)
resolve_joins(s, joins, i, first_table_alias, c) ==
    IF i > Len(joins) THEN [ok |-> TRUE, ctx |-> c]
    ELSE LET r == resolve_join(s, joins[i], first_table_alias, c)
         IN IF ~r.ok THEN r
            ELSE resolve_joins(s, joins, i + 1, first_table_alias, r.ctx)

resolve_table_refs(s, twj, c) ==
    LET first_table_alias == get_table_alias(twj.relation)
        r == resolve_table_factor(s, twj.relation, c)
    IN IF ~r.ok THEN r
       ELSE resolve_joins(s, twj.joins, 1, first_table_alias, r.ctx)

(***************************************************************************)
(* validate.rs: the expression typer                                       *)
(***************************************************************************)
StringFunctions ==
    {<<"u","p","p","e","r">>,
     <<"l","o","w","e","r">>,
     <<"i","n","i","t","c","a","p">>,
     <<"c","o","n","c","a","t">>,
     <<"c","o","n","c","a","t","_","w","s">>,
     <<"s","u","b","s","t","r","i","n","g">>,
     <<"s","u","b","s","t","r">>,
     <<"l","e","f","t">>,
     <<"r","i","g","h","t">>,
     <<"t","r","i","m">>,
     <<"l","t","r","i","m">>,
     <<"r","t","r","i","m">>,
     <<"b","t","r","i","m">>,
     <<"r","e","p","l","a","c","e">>,
     <<"t","r","a","n","s","l","a","t","e">>,
     <<"r","e","v","e","r","s","e">>,
     <<"r","e","p","e","a","t">>,
     <<"l","p","a","d">>,
     <<"r","p","a","d">>,
     <<"s","p","l","i","t","_","p","a","r","t">>,
     <<"o","v","e","r","l","a","y">>,
     <<"f","o","r","m","a","t">>,
     <<"q","u","o","t","e","_","i","d","e","n","t">>,
     <<"q","u","o","t","e","_","l","i","t","e","r","a","l">>,
     <<"q","u","o","t","e","_","n","u","l","l","a","b","l","e">>,
     <<"e","n","c","o","d","e">>,
     <<"d","e","c","o","d","e">>,
     <<"m","d","5">>,
     <<"s","h","a","2","5","6">>,
     <<"s","h","a","3","8","4">>,
     <<"s","h","a","5","1","2">>,
     <<"t","o","_","h","e","x">>,
     <<"c","h","r">>,
     <<"r","e","g","e","x","p","_","r","e","p","l","a","c","e">>,
     <<"r","e","g","e","x","p","_","s","u","b","s","t","r">>,
     <<"r","e","g","e","x","p","_","m","a","t","c","h">>,
     <<"t","o","_","c","h","a","r">>}

I32Functions ==
    {<<"l","e","n","g","t","h">>,
     <<"c","h","a","r","_","l","e","n","g","t","h">>,
     <<"c","h","a","r","a","c","t","e","r","_","l","e","n","g","t","h">>,
     <<"o","c","t","e","t","_","l","e","n","g","t","h">>,
     <<"b","i","t","_","l","e","n","g","t","h">>,
     <<"p","o","s","i","t","i","o","n">>,
     <<"s","t","r","p","o","s">>,
     <<"a","s","c","i","i">>}

F64Functions ==
    {<<"e","x","t","r","a","c","t">>,
     <<"d","a","t","e","_","p","a","r","t">>}

DateTimeFunctions ==
    {<<"n","o","w">>,
     <<"d","a","t","e","_","t","r","u","n","c">>,
     <<"t","o","_","t","i","m","e","s","t","a","m","p">>,
     <<"c","u","r","r","e","n","t","_","t","i","m","e","s","t","a","m","p">>,
     <<"l","o","c","a","l","t","i","m","e","s","t","a","m","p">>,
     <<"l","o","c","a","l","t","i","m","e">>,
     <<"m","a","k","e","_","t","i","m","e","s","t","a","m","p">>,
     <<"m","a","k","e","_","t","i","m","e","s","t","a","m","p","t","z">>}

DateFunctions ==
    {<<"t","o","_","d","a","t","e">>,
     <<"c","u","r","r","e","n","t","_","d","a","t","e">>,
     <<"m","a","k","e","_","d","a","t","e">>}

TimeFunctions ==
    {<<"c","u","r","r","e","n","t","_","t","i","m","e">>,
     <<"m","a","k","e","_","t","i","m","e">>}

DurationFunctions ==
    {<<"a","g","e">>,
     <<"m","a","k","e","_","i","n","t","e","r","v","a","l">>}

fn_count == <<"c","o","u","n","t">>

fn_sum == <<"s","u","m">>

fn_avg == <<"a","v","g">>

fn_min == <<"m","i","n">>

fn_max == <<"m","a","x">>

fn_coalesce == <<"c","o","a","l","e","s","c","e">>

name_unnamed == <<"?","c","o","l","u","m","n","?">>
name_extract == <<"e","x","t","r","a","c","t">>
name_ceil == <<"c","e","i","l">>
name_floor == <<"f","l","o","o","r">>
name_position == <<"p","o","s","i","t","i","o","n">>
name_substring == <<"s","u","b","s","t","r","i","n","g">>
name_trim == <<"t","r","i","m">>
name_overlay == <<"o","v","e","r","l","a","y">>

Typed(name, rust_type) == [ok |-> TRUE, name |-> name, rust_type |-> rust_type]

\* cte.columns.iter().find(|c| c.name.eq_ignore_ascii_case(col_name))
find_cte_column(cte, col_name) ==
    LET hits == {i \in 1..Len(cte.columns) : eq_ignore_ascii_case(cte.columns[i].name, col_name)}
    IN IF hits = {} THEN None
       ELSE Some(cte.columns[CHOOSE i \in hits : \A j \in hits : i <= j])

\* the loop of find_column_in_ctes from position i of the iteration order,
\* found being the match so far; Option<(String, RustType)>
RECURSIVE find_column_in_ctes_from(_, _, _, _, _)
find_column_in_ctes_from(c, ord, col_name, i, found) ==
    IF i > Len(ord) THEN found
    ELSE LET alias == ord[i]
             cte_name == strip_prefix(c.table_aliases[alias], cte_prefix)
             cte == IF cte_name # None THEN get_cte(c, cte_name[1]) ELSE None
             col == IF cte # None THEN find_cte_column(cte[1], col_name) ELSE None
         IN IF col # None
            THEN IF found # None
                 THEN None
                 ELSE find_column_in_ctes_from(c, ord, col_name, i + 1,
                          Some([alias |-> alias, rust_type |-> col[1].rust_type]))
            ELSE find_column_in_ctes_from(c, ord, col_name, i + 1, found)

find_column_in_ctes(c, ord, col_name) == find_column_in_ctes_from(c, ord, col_name, 1, None)

\* the loop of find_column_in_tables; Result<(String, &Column)>
RECURSIVE find_column_in_tables_from(_, _, _, _, _, _)
find_column_in_tables_from(s, c, ord, col_name, i, found) ==
    IF i > Len(ord)
    THEN IF found # None
         THEN [ok |-> TRUE, alias |-> found[1].alias, col |-> found[1].col]
         ELSE Err(UnknownColumn(unknown_marker, col_name))
    ELSE LET alias == ord[i]
             table_name == c.table_aliases[alias]
             table == IF starts_with(table_name, cte_prefix) THEN None
                      ELSE get_table(s, table_name)
             col == IF table # None THEN get_column(table[1], col_name) ELSE None
         IN IF col # None
            THEN IF found # None
                 THEN Err(AmbiguousColumn(col_name))
                 ELSE find_column_in_tables_from(s, c, ord, col_name, i + 1,
                          Some([alias |-> alias, col |-> col[1]]))
            ELSE find_column_in_tables_from(s, c, ord, col_name, i + 1, found)

find_column_in_tables(s, c, ord, col_name) ==
    find_column_in_tables_from(s, c, ord, col_name, 1, None)

strip_option(t) == IF t.t = "Option" THEN t.inner ELSE t

\* function_type with sum and avg typed Decimal, not nullable:
\* C15_FunctionTable tells the two apart
function_type_sum_not_null(func_name) ==
    CASE func_name = fn_count -> [t |-> "I64"]
      [] func_name \in {fn_sum, fn_avg} -> [t |-> "Decimal"]
      [] func_name \in DateTimeFunctions -> [t |-> "DateTime"]
      [] func_name \in StringFunctions -> [t |-> "String"]
      [] func_name \in I32Functions -> [t |-> "I32"]
      [] func_name \in F64Functions -> [t |-> "F64"]
      [] func_name \in DurationFunctions -> [t |-> "Duration"]
      [] func_name \in DateFunctions -> [t |-> "Date"]
      [] func_name \in TimeFunctions -> [t |-> "Time"]
      [] OTHER -> [t |-> "Custom", name |-> func_name]

function_type(func_name) ==
    CASE func_name = fn_count -> [t |-> "I64"]
      [] func_name \in {fn_sum, fn_avg} -> RustOption([t |-> "Decimal"])
      [] func_name \in DateTimeFunctions -> [t |-> "DateTime"]
      [] func_name \in StringFunctions -> [t |-> "String"]
      [] func_name \in I32Functions -> [t |-> "I32"]
      [] func_name \in F64Functions -> [t |-> "F64"]
      [] func_name \in DurationFunctions -> [t |-> "Duration"]
      [] func_name \in DateFunctions -> [t |-> "Date"]
      [] func_name \in TimeFunctions -> [t |-> "Time"]
      [] OTHER -> [t |-> "Custom", name |-> func_name]

value_type(v) ==
    CASE v = "Number" -> [t |-> "I64"]
      [] v = "SingleQuotedString" -> [t |-> "String"]
      [] v = "Boolean" -> [t |-> "Bool"]
      [] v = "Null" -> RustOption([t |-> "String"])
      [] OTHER -> [t |-> "String"]

RECURSIVE infer_expr_type(_, _, _, _)

\* Result<Option<RustType>>
get_first_arg_type(s, c, ord, args) ==
    IF args.kind = "List"
    THEN IF Len(args.args) > 0 /\ args.args[1].arg = "Unnamed"
            /\ args.args[1].value.kind = "Expr"
         THEN LET r == infer_expr_type(s, c, ord, args.args[1].value.expr)
              IN IF r.ok THEN [ok |-> TRUE, some |-> Some(r.rust_type)] ELSE r
         ELSE [ok |-> TRUE, some |-> None]
    ELSE [ok |-> TRUE, some |-> None]

\* Result<(String, RustType)>; ord is the iteration order of c.table_aliases
infer_expr_type(s, c, ord, e) ==
    CASE e.expr = "Identifier" ->
            LET col_name == e.ident.value
                in_cte == find_column_in_ctes(c, ord, col_name)
            IN IF in_cte # None
               THEN Typed(col_name,
                          IF is_nullable_table(c, in_cte[1].alias)
                          THEN nullable(in_cte[1].rust_type)
                          ELSE in_cte[1].rust_type)
               ELSE LET f == find_column_in_tables(s, c, ord, col_name)
                    IN IF ~f.ok THEN f
                       ELSE Typed(col_name,
                                  IF f.col.nullable \/ is_nullable_table(c, f.alias)
                                  THEN nullable(to_rust_type(f.col.data_type))
                                  ELSE to_rust_type(f.col.data_type))
      [] e.expr = "CompoundIdentifier" ->
            IF Len(e.idents) # 2
            THEN Err(InvalidQuery(<<"Expected table.column, got ", Len(e.idents), " parts">>))
            ELSE LET table_alias == e.idents[1].value
                     col_name == e.idents[2].value
                 IN IF to_lowercase(table_alias) \notin DOMAIN c.table_aliases
                    THEN Err(UnknownTable(table_alias))
                    ELSE LET table_ref == c.table_aliases[to_lowercase(table_alias)]
                             cte_name == strip_prefix(table_ref, cte_prefix)
                         IN IF cte_name # None
                            THEN LET cte == get_cte(c, cte_name[1])
                                     cte_col == IF cte # None
                                                THEN find_cte_column(cte[1], col_name)
                                                ELSE None
                                 IN IF cte = None THEN Err(UnknownTable(cte_name[1]))
                                    ELSE IF cte_col = None
                                    THEN Err(UnknownColumn(cte_name[1], col_name))
                                    ELSE Typed(col_name,
                                               IF is_nullable_table(c, table_alias)
                                               THEN nullable(cte_col[1].rust_type)
                                               ELSE cte_col[1].rust_type)
                            ELSE LET table == get_table(s, table_ref)
                                     col == IF table # None
                                            THEN get_column(table[1], col_name)
                                            ELSE None
                                 IN IF table = None THEN Err(UnknownTable(table_ref))
                                    ELSE IF col = None
                                    THEN Err(UnknownColumn(table_ref, col_name))
                                    ELSE Typed(col_name,
                                               IF col[1].nullable
                                                  \/ is_nullable_table(c, table_alias)
                                               THEN nullable(to_rust_type(col[1].data_type))
                                               ELSE to_rust_type(col[1].data_type))
      [] e.expr = "Function" ->
            LET func_name == IF last_ident_value(e.name) = None THEN <<>>
                             ELSE to_lowercase(last_ident_value(e.name)[1])
                first == get_first_arg_type(s, c, ord, e.args)
            IN CASE func_name \in {fn_min, fn_max} ->
                        IF ~first.ok THEN first
                        ELSE IF first.some # None
                        THEN Typed(func_name, RustOption(strip_option(first.some[1])))
                        ELSE Typed(func_name, RustOption([t |-> "String"]))
                 [] func_name = fn_coalesce ->
                        IF ~first.ok THEN first
                        ELSE IF first.some # None
                        THEN Typed(func_name, strip_option(first.some[1]))
                        ELSE Typed(func_name, [t |-> "String"])
                 [] OTHER -> Typed(func_name, function_type(func_name))
      [] e.expr = "Value" -> Typed(name_unnamed, value_type(e.value))
      [] e.expr = "BinaryOp" -> infer_expr_type(s, c, ord, e.left)
      [] e.expr = "Nested" -> infer_expr_type(s, c, ord, e.inner)
      [] e.expr = "Extract" -> Typed(name_extract, [t |-> "F64"])
      [] e.expr = "Ceil" -> Typed(name_ceil, [t |-> "F64"])
      [] e.expr = "Floor" -> Typed(name_floor, [t |-> "F64"])
      [] e.expr = "Position" -> Typed(name_position, [t |-> "I32"])
      [] e.expr = "Substring" -> Typed(name_substring, [t |-> "String"])
      [] e.expr = "Trim" -> Typed(name_trim, [t |-> "String"])
      [] e.expr = "Overlay" -> Typed(name_overlay, [t |-> "String"])
      [] OTHER -> Typed(name_unnamed, [t |-> "String"])

(***************************************************************************)
(* validate.rs: the projection                                             *)
(***************************************************************************)
QueryColumn(name, rust_type) == [name |-> name, rust_type |-> rust_type]

\* the columns of a schema table, as `*` and `T.*` push them
table_columns(table, alias_nullable) ==
    [i \in 1..Len(table.columns) |->
        QueryColumn(table.columns[i].name,
                    IF table.columns[i].nullable \/ alias_nullable
                    THEN nullable(to_rust_type(table.columns[i].data_type))
                    ELSE to_rust_type(table.columns[i].data_type))]

\* the columns of a CTE, as `*` and `T.*` push them
cte_columns(cte, alias_nullable) ==
    [i \in 1..Len(cte.columns) |->
        QueryColumn(cte.columns[i].name,
                    IF alias_nullable THEN nullable(cte.columns[i].rust_type)
                    ELSE cte.columns[i].rust_type)]

\* SelectItem::Wildcard: the loop over ctx.table_aliases from position i
RECURSIVE wildcard_columns(_, _, _, _)
wildcard_columns(s, c, ord, i) ==
    IF i > Len(ord) THEN <<>>
    ELSE LET alias == ord[i]
             table_ref == c.table_aliases[alias]
             cte_name == strip_prefix(table_ref, cte_prefix)
             here == IF cte_name # None
                     THEN IF get_cte(c, cte_name[1]) # None
                          THEN cte_columns(get_cte(c, cte_name[1])[1], is_nullable_table(c, alias))
                          ELSE <<>>
                     ELSE IF get_table(s, table_ref) # None
                          THEN table_columns(get_table(s, table_ref)[1], is_nullable_table(c, alias))
                          ELSE <<>>
         IN here \o wildcard_columns(s, c, ord, i + 1)

\* SelectItem::QualifiedWildcard; Result<Vec<QueryColumn>>
qualified_wildcard_columns(s, c, item) ==
    IF item.kind # "ObjectName"
    THEN Err(InvalidQuery(<<"Expression wildcards not supported">>))
    ELSE IF Len(item.name) = 0
    THEN Err(InvalidQuery(<<"Empty qualified wildcard">>))
    ELSE LET table_alias == item.name[1].value
         IN IF to_lowercase(table_alias) \notin DOMAIN c.table_aliases
            THEN Err(UnknownTable(table_alias))
            ELSE LET table_ref == c.table_aliases[to_lowercase(table_alias)]
                     cte_name == strip_prefix(table_ref, cte_prefix)
                 IN IF cte_name # None
                    THEN IF get_cte(c, cte_name[1]) = None
                         THEN Err(UnknownTable(cte_name[1]))
                         ELSE Ok(cte_columns(get_cte(c, cte_name[1])[1],
                                             is_nullable_table(c, table_alias)))
                    ELSE IF get_table(s, table_ref) = None
                         THEN Err(UnknownTable(table_ref))
                         ELSE Ok(table_columns(get_table(s, table_ref)[1],
                                               is_nullable_table(c, table_alias)))

\* one iteration of the loop over select.projection: the columns it pushes
\* SelectItem::UnnamedExpr: the column pushed for the typed expression r
unnamed_expr_column(r) ==
    IF r.ok THEN Ok(<<QueryColumn(r.name, r.rust_type)>>) ELSE r

\* SelectItem::ExprWithAlias: the column pushed for the typed expression r
expr_with_alias_column(r, alias) ==
    IF r.ok THEN Ok(<<QueryColumn(alias.value, r.rust_type)>>) ELSE r

select_item(s, c, ord, item) ==
    CASE item.item = "UnnamedExpr" ->
            unnamed_expr_column(infer_expr_type(s, c, ord, item.expr))
      [] item.item = "ExprWithAlias" ->
            expr_with_alias_column(infer_expr_type(s, c, ord, item.expr), item.alias)
      [] item.item = "Wildcard" -> Ok(wildcard_columns(s, c, ord, 1))
      [] item.item = "QualifiedWildcard" -> qualified_wildcard_columns(s, c, item)

RECURSIVE select_items(_, _, _, _, _, _)

\* the rest of the loop over select.projection after item i gave r
select_items_after(s, c, ord, projection, i, cols, r) ==
    IF ~r.ok THEN r
    ELSE select_items(s, c, ord, projection, i + 1, cols \o r.columns)

select_items(s, c, ord, projection, i, cols) ==
    IF i > Len(projection) THEN Ok(cols)
    ELSE select_items_after(s, c, ord, projection, i, cols,
                            select_item(s, c, ord, projection[i]))

\* the loop over select.from
RECURSIVE resolve_from(_, _, _, _)

\* the rest of the loop over select.from after entry i gave r
resolve_from_after(s, from, i, r) ==
    IF ~r.ok THEN r ELSE resolve_from(s, from, i + 1, r.ctx)

resolve_from(s, from, i, c) ==
    IF i > Len(from) THEN [ok |-> TRUE, ctx |-> c]
    ELSE resolve_from_after(s, from, i, resolve_table_refs(s, from[i], c))

\* the projection of a select whose FROM clause gave r
project(s, select, r) ==
    IF ~r.ok THEN {r}
    ELSE {select_items(s, r.ctx, ord, select.projection, 1, <<>>) :
             ord \in Perms(DOMAIN r.ctx.table_aliases)}

\* The set of results validate_select_body_with_ctx can return: one for
\* each order in which ctx.table_aliases can be iterated.
validate_select_body_with_ctx(s, select, c) ==
    project(s, select, resolve_from(s, select.from, 1, c))

(***************************************************************************)
(* validate.rs: statements                                                 *)
(***************************************************************************)
set_op_name(op) ==
    CASE op = "Union" -> "UNION"
      [] op = "Intersect" -> "INTERSECT"
      [] op = "Except" -> "EXCEPT"
      [] op = "Minus" -> "MINUS"

\* set_operation_result returning the right side's columns on success:
\* C4_SetOperation tells the two apart
set_operation_result_right(op, left_result, right_result) ==
    IF ~left_result.ok THEN left_result
    ELSE IF ~right_result.ok THEN right_result
    ELSE IF Len(left_result.columns) # Len(right_result.columns)
    THEN Err(InvalidQuery(<<set_op_name(op),
                            " requires both sides to have the same number of columns (left: ",
                            Len(left_result.columns), ", right: ",
                            Len(right_result.columns), ")">>))
    ELSE right_result

\* what a SetOperation returns from the results of its two sides
set_operation_result(op, left_result, right_result) ==
    IF ~left_result.ok THEN left_result
    ELSE IF ~right_result.ok THEN right_result
    ELSE IF Len(left_result.columns) # Len(right_result.columns)
    THEN Err(InvalidQuery(<<set_op_name(op),
                            " requires both sides to have the same number of columns (left: ",
                            Len(left_result.columns), ", right: ",
                            Len(right_result.columns), ")">>))
    ELSE left_result

\* the columns recorded for a CTE from the result of its query
cte_result_columns(cte, cols) ==
    IF Len(cte.alias.columns) # 0
    THEN [i \in 1..(IF Len(cols) < Len(cte.alias.columns) THEN Len(cols)
                    ELSE Len(cte.alias.columns)) |->
             [cols[i] EXCEPT !.name = cte.alias.columns[i].name.value]]
    ELSE cols

RECURSIVE validate_select(_, _), validate_set_expr(_, _, _), with_contexts(_, _, _, _)

\* the loop over with_clause.cte_tables from position i: the contexts it
\* can end with, or the errors
with_contexts(s, cte_tables, i, c) ==
    IF i > Len(cte_tables) THEN {[ok |-> TRUE, ctx |-> c]}
    ELSE UNION {IF ~r.ok THEN {r}
                ELSE with_contexts(s, cte_tables, i + 1,
                         add_cte(c, cte_tables[i].alias.name.value,
                                 cte_result_columns(cte_tables[i], r.columns))) :
                r \in validate_select(s, cte_tables[i].query)}

validate_set_expr(s, set_expr, c) ==
    CASE set_expr.set = "Select" -> validate_select_body_with_ctx(s, set_expr.select, c)
      [] set_expr.set = "SetOperation" ->
            {set_operation_result(set_expr.op, l, r) :
                l \in validate_set_expr(s, set_expr.left, ResolveContext_default),
                r \in validate_set_expr(s, set_expr.right, ResolveContext_default)}
      [] set_expr.set = "Query" -> validate_select(s, set_expr.query)
      [] OTHER -> {Err(InvalidQuery(
                     <<"Only SELECT and set operations (UNION/INTERSECT/EXCEPT) are supported">>))}

validate_select(s, query) ==
    LET cte_tables == IF query.with # None THEN query.with[1].cte_tables ELSE <<>>
    IN UNION {IF ~w.ok THEN {w} ELSE validate_set_expr(s, query.body, w.ctx) :
              w \in with_contexts(s, cte_tables, 1, ResolveContext_default)}

\* Display of an Ident and of an ObjectName
ident_to_string(i) ==
    IF i.quote_style = "\"" THEN <<"\"">> \o i.value \o <<"\"">> ELSE i.value

RECURSIVE object_name_to_display(_)
object_name_to_display(name) ==
    IF Len(name) = 0 THEN <<>>
    ELSE IF Len(name) = 1 THEN ident_to_string(name[1])
    ELSE ident_to_string(name[1]) \o <<".">> \o object_name_to_display(Tail(name))

\* the context validate_insert, validate_update and validate_delete build
\* for RETURNING
returning_context(table_name) ==
    [ResolveContext_default EXCEPT
        !.table_aliases = insert(@, to_lowercase(table_name), table_name)]

\* the loop over returning from position i; Result<QueryResult>
RECURSIVE infer_returning_types_from(_, _, _, _, _, _)

\* the rest of the loop over returning after item i gave the column r
infer_returning_types_after(s, c, table, returning, i, cols, r) ==
    IF ~r.ok THEN r
    ELSE infer_returning_types_from(s, c, table, returning, i + 1, cols \o r.columns)

infer_returning_types_from(s, c, table, returning, i, cols) ==
    IF i > Len(returning) THEN Ok(cols)
    ELSE LET item == returning[i]
             ord == CHOOSE p \in Perms(DOMAIN c.table_aliases) : TRUE
         IN CASE item.item = "UnnamedExpr" ->
                    infer_returning_types_after(s, c, table, returning, i, cols,
                        unnamed_expr_column(infer_expr_type(s, c, ord, item.expr)))
              [] item.item = "ExprWithAlias" ->
                    infer_returning_types_after(s, c, table, returning, i, cols,
                        expr_with_alias_column(infer_expr_type(s, c, ord, item.expr),
                                               item.alias))
              [] item.item = "Wildcard" ->
                    infer_returning_types_from(s, c, table, returning, i + 1,
                        cols \o table_columns(table, FALSE))
              [] OTHER -> infer_returning_types_from(s, c, table, returning, i + 1, cols)

infer_returning_types(s, c, table, returning) ==
    infer_returning_types_from(s, c, table, returning, 1, <<>>)

\* the first name of col_names that is no column of table, if any
first_unknown_column(table, col_names) ==
    LET bad == {i \in 1..Len(col_names) : ~has_column(table, col_names[i])}
    IN IF bad = {} THEN None ELSE Some(col_names[CHOOSE i \in bad : \A j \in bad : i <= j])

validate_insert(s, ins) ==
    LET table_name == object_name_to_display(ins.table)
        table == get_table(s, table_name)
        unknown == first_unknown_column(table[1], [i \in 1..Len(ins.columns) |-> ins.columns[i].value])
    IN IF table = None THEN Err(UnknownTable(table_name))
       ELSE IF unknown # None THEN Err(UnknownColumn(table_name, unknown[1]))
       ELSE IF ins.returning # None
       THEN infer_returning_types(s, returning_context(table_name), table[1], ins.returning[1])
       ELSE Ok(<<>>)

\* Result<String>
extract_table_name_from_table_with_joins(twj) ==
    IF twj.relation.factor = "Table"
    THEN IF last_ident_value(twj.relation.name) = None
         THEN Err(InvalidQuery(<<"Empty table name">>))
         ELSE [ok |-> TRUE, name |-> last_ident_value(twj.relation.name)[1]]
    ELSE Err(InvalidQuery(<<"Complex table expressions not supported in UPDATE">>))

\* Result<String>
extract_table_name_from_delete_from(from) ==
    IF Len(from) = 0
    THEN Err(InvalidQuery(<<"DELETE requires at least one table">>))
    ELSE extract_table_name_from_table_with_joins(from[1])

\* Result<Vec<String>>
extract_assignment_target_columns(target) ==
    IF target.kind = "ColumnName"
    THEN IF last_ident_value(target.name) = None
         THEN Err(InvalidQuery(<<"Empty column name in assignment">>))
         ELSE [ok |-> TRUE, names |-> <<last_ident_value(target.name)[1]>>]
    ELSE IF \E i \in 1..Len(target.names) : last_ident_value(target.names[i]) = None
         THEN Err(InvalidQuery(<<"Empty column name in tuple assignment">>))
         ELSE [ok |-> TRUE,
               names |-> [i \in 1..Len(target.names) |-> last_ident_value(target.names[i])[1]]]

\* the loop over update.assignments from position i: the first error, if any
RECURSIVE check_assignments(_, _, _, _)
check_assignments(table, table_name, assignments, i) ==
    IF i > Len(assignments) THEN None
    ELSE LET col_names == extract_assignment_target_columns(assignments[i].target)
         IN IF ~col_names.ok THEN Some(col_names)
            ELSE LET unknown == first_unknown_column(table, col_names.names)
                 IN IF unknown # None THEN Some(Err(UnknownColumn(table_name, unknown[1])))
                    ELSE check_assignments(table, table_name, assignments, i + 1)

validate_update(s, upd) ==
    LET table_name == extract_table_name_from_table_with_joins(upd.table)
        table == get_table(s, table_name.name)
        bad == check_assignments(table[1], table_name.name, upd.assignments, 1)
    IN IF ~table_name.ok THEN table_name
       ELSE IF table = None THEN Err(UnknownTable(table_name.name))
       ELSE IF bad # None THEN bad[1]
       ELSE IF upd.returning # None
       THEN infer_returning_types(s, returning_context(table_name.name), table[1],
                                  upd.returning[1])
       ELSE Ok(<<>>)

validate_delete(s, del) ==
    LET table_name == extract_table_name_from_delete_from(del.from)
        table == get_table(s, table_name.name)
    IN IF ~table_name.ok THEN table_name
       ELSE IF table = None THEN Err(UnknownTable(table_name.name))
       ELSE IF del.returning # None
       THEN infer_returning_types(s, returning_context(table_name.name), table[1],
                                  del.returning[1])
       ELSE Ok(<<>>)

\* validate_query without the count of the statements, the first one being
\* validated: C7_InvalidQuery tells the two apart
validate_query_first_statement(s, q) ==
    IF ~q.parse_ok THEN {Err(QueryParse)}
    ELSE IF Len(q.statements) = 0
    THEN {Err(InvalidQuery(<<"Expected exactly one statement">>))}
    ELSE IF q.statements[1].stmt = "Query" THEN validate_select(s, q.statements[1].query)
    ELSE {Err(InvalidQuery(<<"Only ", "SELECT", ", ", "INSERT", ", ", "UPDATE", ", and ",
                             "DELETE", " are supported">>))}

\* The set of results validate_query can return for the parser's output q.
validate_query(s, q) ==
    IF ~q.parse_ok THEN {Err(QueryParse)}
    ELSE IF Len(q.statements) # 1
    THEN {Err(InvalidQuery(<<"Expected exactly one statement">>))}
    ELSE LET st == q.statements[1]
         IN CASE st.stmt = "Query" -> validate_select(s, st.query)
              [] st.stmt = "Insert" -> {validate_insert(s, st)}
              [] st.stmt = "Update" -> {validate_update(s, st)}
              [] st.stmt = "Delete" -> {validate_delete(s, st)}
              [] OTHER -> {Err(InvalidQuery(
                             <<"Only ", "SELECT", ", ", "INSERT", ", ", "UPDATE", ", and ",
                               "DELETE", " are supported">>))}

(***************************************************************************)
(* The catalog and the identifiers of the inputs                           *)
(***************************************************************************)
s_users == <<"u","s","e","r","s">>
s_profiles == <<"p","r","o","f","i","l","e","s">>
s_ghosts == <<"g","h","o","s","t","s">>
s_public == <<"p","u","b","l","i","c">>
s_id == <<"i","d">>
s_name == <<"n","a","m","e">>
s_email == <<"e","m","a","i","l">>
s_metadata == <<"m","e","t","a","d","a","t","a">>
s_user_id == <<"u","s","e","r","_","i","d">>
s_bio == <<"b","i","o">>
s_avatar_url == <<"a","v","a","t","a","r","_","u","r","l">>
s_fake == <<"f","a","k","e">>
s_u == <<"u">>
s_p == <<"p">>
s_P_upper == <<"P">>
s_E_acute == <<"É">>
s_NAME_upper == <<"N","A","M","E">>
s_Users_cap == <<"U","s","e","r","s">>
s_c1 == <<"c","1">>
s_c2 == <<"c","2">>
s_a == <<"a">>
s_b == <<"b">>
s_d == <<"d">>
s_n == <<"n">>
s_upper == <<"u","p","p","e","r">>
s_MIN_upper == <<"M","I","N">>
s_COUNT_upper == <<"C","O","U","N","T">>

\* the catalog of validate.rs's tests
test_schema ==
    [tables |->
        (s_users :> Table(s_users,
                     <<[Column(s_id, [t |-> "Uuid"], FALSE) EXCEPT !.is_primary_key = TRUE],
                       Column(s_name, [t |-> "Text"], FALSE),
                       Column(s_email, [t |-> "Text"], FALSE),
                       [Column(s_metadata, [t |-> "Jsonb"], FALSE) EXCEPT !.has_default = TRUE]>>))
        @@
        (s_profiles :> Table(s_profiles,
                     <<[Column(s_id, [t |-> "Uuid"], FALSE) EXCEPT !.is_primary_key = TRUE],
                       Column(s_user_id, [t |-> "Uuid"], FALSE),
                       Column(s_bio, [t |-> "Text"], TRUE),
                       Column(s_avatar_url, [t |-> "Text"], TRUE)>>))]

(***************************************************************************)
(* sql-check-macros/src/lib.rs                                             *)
(*                                                                         *)
(* A usize is the sequence of its decimal digits with no leading zero, so  *)
(* that every value of the type has a representation and Display is the    *)
(* identity on it.                                                         *)
(***************************************************************************)
usize_MAX == <<"1","8","4","4","6","7","4","4","0","7","3","7","0","9","5","5","1","6","1","5">>

zero == <<"0">>

\* the digits of a number without its leading zeros
RECURSIVE canonical(_)
canonical(digits) ==
    IF Len(digits) > 1 /\ digits[1] = "0" THEN canonical(Tail(digits)) ELSE digits

\* a < b for two digit sequences of one length
RECURSIVE digits_less(_, _)
digits_less(a, b) ==
    IF Len(a) = 0 THEN FALSE
    ELSE IF a[1] # b[1] THEN digit_value(a[1]) < digit_value(b[1])
    ELSE digits_less(Tail(a), Tail(b))

\* a < b for two numbers
number_less(a, b) ==
    \/ Len(a) < Len(b)
    \/ Len(a) = Len(b) /\ digits_less(a, b)

\* usize::max
number_max(a, b) == IF number_less(a, b) THEN b ELSE a

\* str::parse::<usize>() of a string of ASCII digits: Err when the string is
\* empty or the number does not fit
parse_usize(num_str) ==
    IF Len(num_str) = 0 \/ number_less(usize_MAX, canonical(num_str)) THEN None
    ELSE Some(canonical(num_str))

\* the usize of a small number
RECURSIVE usize_of(_)
usize_of(n) ==
    IF n < 10 THEN <<Digits[n + 1]>> ELSE usize_of(n \div 10) \o <<Digits[(n % 10) + 1]>>

\* the position after the digits that begin at position i
RECURSIVE digits_end(_, _)
digits_end(s, i) ==
    IF i <= Len(s) /\ is_digit(s[i]) THEN digits_end(s, i + 1) ELSE i

\* max_placeholder after a `$` whose digits parsed to num
max_with(max_placeholder, num) ==
    IF num # None THEN number_max(max_placeholder, num[1]) ELSE max_placeholder

\* the loop of count_placeholders from position i on
RECURSIVE count_from(_, _, _)
count_from(s, i, max_placeholder) ==
    IF i > Len(s) THEN max_placeholder
    ELSE IF s[i] = "$"
    THEN count_from(s, digits_end(s, i + 1),
                    max_with(max_placeholder,
                             parse_usize(SubSeq(s, i + 1, digits_end(s, i + 1) - 1))))
    ELSE count_from(s, i + 1, max_placeholder)

count_placeholders(s) == count_from(s, 1, zero)

\* the compile error of query! for a wrong number of parameters
ExpectedParameters(param_count, params_len) ==
    [error |-> <<"Expected ", param_count, " parameter(s) but got ", params_len>>]

\* char::is_alphanumeric on the characters of the model's names
is_alphanumeric(c) ==
    \/ is_digit(c)
    \/ c \in {"é", "É"}
    \/ \E i \in 1..Len(AsciiLower) : AsciiLower[i] = c \/ AsciiUpper[i] = c

\* the keywords sanitize_field_name writes as raw identifiers
ReservedKeywords ==
    {<<"t","y","p","e">>, <<"m","a","t","c","h">>, <<"r","e","f">>, <<"s","e","l","f">>,
     <<"m","o","d">>, <<"f","n">>, <<"l","e","t">>, <<"u","s","e">>, <<"p","u","b">>,
     <<"s","t","r","u","c","t">>, <<"e","n","u","m">>, <<"t","r","a","i","t">>,
     <<"i","m","p","l">>, <<"c","o","n","s","t">>, <<"s","t","a","t","i","c">>,
     <<"m","u","t">>, <<"a","s">>, <<"b","r","e","a","k">>,
     <<"c","o","n","t","i","n","u","e">>, <<"r","e","t","u","r","n">>, <<"i","f">>,
     <<"e","l","s","e">>, <<"l","o","o","p">>, <<"w","h","i","l","e">>, <<"f","o","r">>,
     <<"i","n">>, <<"w","h","e","r","e">>, <<"a","s","y","n","c">>,
     <<"a","w","a","i","t">>, <<"m","o","v","e">>, <<"d","y","n">>,
     <<"s","u","p","e","r">>, <<"c","r","a","t","e">>, <<"e","x","t","e","r","n">>,
     <<"u","n","s","a","f","e">>}

\* name.replace(|c| !c.is_alphanumeric() && c != '_', "_")
replace_non_identifier(name) ==
    [i \in 1..Len(name) |-> IF is_alphanumeric(name[i]) \/ name[i] = "_" THEN name[i] ELSE "_"]

\* the arms of the match of sanitize_field_name on the replaced name
sanitized(name) ==
    IF name \in ReservedKeywords THEN <<"r", "#">> \o name
    ELSE IF Len(name) > 0 /\ is_digit(name[1]) THEN <<"_">> \o name
    ELSE IF Len(name) = 0 THEN <<"_","u","n","n","a","m","e","d">>
    ELSE name

sanitize_field_name(name) == sanitized(replace_non_identifier(name))

\* the names of the fields of the struct generate_query_code writes
field_names(cols) == [i \in 1..Len(cols) |-> sanitize_field_name(cols[i].name)]

\* generate_query_code: the fields of the result struct, one per column in order
generate_query_code(cols) == [fields |-> field_names(cols)]

\* query!: the compile error for a query validate_query rejected
ValidationError(e) == [error |-> <<"SQL validation error: ", e>>]

\* query!, after load_schema: what the macro expands to for the Result r of
\* validate_query, the string literal s and n parameter expressions
query_macro(r, s, n) ==
    IF ~r.ok THEN ValidationError(r.err)
    ELSE IF usize_of(n) # count_placeholders(s)
    THEN ExpectedParameters(count_placeholders(s), usize_of(n))
    ELSE generate_query_code(r.columns)

(***************************************************************************)
(* The parser's output: constructors of the AST nodes the validator reads  *)
(***************************************************************************)
Ident(v) == [value |-> v, quote_style |-> "none"]
QuotedIdent(v) == [value |-> v, quote_style |-> "\""]

TableFactor(name, alias) == [factor |-> "Table", name |-> name, alias |-> alias]
Derived(alias) == [factor |-> "Derived", alias |-> alias]
Join(op, relation) == [relation |-> relation, join_operator |-> op, constraint |-> None]
JoinOn(op, relation, e) == [relation |-> relation, join_operator |-> op, constraint |-> Some(e)]
TableWithJoins(relation, joins) == [relation |-> relation, joins |-> joins]

Identifier(v) == [expr |-> "Identifier", ident |-> Ident(v)]
CompoundIdentifier(a, c) == [expr |-> "CompoundIdentifier", idents |-> <<a, Ident(c)>>]
Number == [expr |-> "Value", value |-> "Number"]
BinaryOp(left, right) == [expr |-> "BinaryOp", left |-> left, right |-> right]
Nested(e) == [expr |-> "Nested", inner |-> e]
ArgExpr(e) == [arg |-> "Unnamed", value |-> [kind |-> "Expr", expr |-> e]]
ArgWildcard == [arg |-> "Unnamed", value |-> [kind |-> "Wildcard"]]
Function(name, args) ==
    [expr |-> "Function", name |-> <<Ident(name)>>, args |-> [kind |-> "List", args |-> args]]
UnnamedExpr(e) == [item |-> "UnnamedExpr", expr |-> e]
ExprWithAlias(e, alias) == [item |-> "ExprWithAlias", expr |-> e, alias |-> Ident(alias)]
Wildcard == [item |-> "Wildcard"]
QualifiedWildcard(name) == [item |-> "QualifiedWildcard", kind |-> "ObjectName", name |-> name]

Select(projection, from) ==
    [projection |-> projection, from |-> from, selection |-> None,
     group_by |-> <<>>, having |-> None]
SelectBody(select) == [set |-> "Select", select |-> select]
Query(with, body) == [with |-> with, body |-> body, order_by |-> <<>>]
QueryStatement(query) == [stmt |-> "Query", query |-> query]
Parsed(statements) == [parse_ok |-> TRUE, statements |-> statements]

SeqsUpTo(S, n) == UNION {[1..k -> S] : k \in 0..n}

Min(a, b) == IF a < b THEN a ELSE b

\* the sequences over S of a length from m to n
SeqsFrom(S, m, n) == UNION {[1..k -> S] : k \in m..n}

(***************************************************************************)
(* Inputs: FROM clauses                                                    *)
(***************************************************************************)
MaxJoins == 2

JoinOperators ==
    {"Inner", "CrossJoin", "Left", "LeftOuter", "LeftSemi", "LeftAnti",
     "Right", "RightOuter", "RightSemi", "RightAnti", "FullOuter"}

users_u == TableFactor(<<Ident(s_users)>>, Some(Ident(s_u)))
users_plain == TableFactor(<<Ident(s_users)>>, None)
users_P == TableFactor(<<Ident(s_users)>>, Some(Ident(s_P_upper)))
profiles_p == TableFactor(<<Ident(s_profiles)>>, Some(Ident(s_p)))
profiles_E == TableFactor(<<Ident(s_profiles)>>, Some(QuotedIdent(s_E_acute)))
ghosts_plain == TableFactor(<<Ident(s_ghosts)>>, None)

FirstFactors == {users_u, users_plain, profiles_p}
JoinFactors == {profiles_p, users_P}

\* one operator of each way of marking, for the FROM clauses of several joins
ChainOperators == {"Inner", "Left", "RightOuter", "FullOuter", "LeftSemi", "RightAnti"}

\* the operators of the FROM clauses of more than two joins
LongChainOperators == {"Left", "RightOuter", "FullOuter"}

JoinedFroms ==
    {<<TableWithJoins(f, js)>> :
        f \in FirstFactors,
        js \in SeqsUpTo({Join(op, r) : op \in JoinOperators, r \in JoinFactors}, 1)
                \cup SeqsUpTo({Join(op, r) : op \in ChainOperators, r \in JoinFactors},
                              Min(MaxJoins, 2))
                \cup SeqsFrom({Join(op, profiles_p) : op \in LongChainOperators},
                              3, MaxJoins)}

\* FROM clauses of two TableWithJoins, with derived tables and a table the
\* catalog does not hold
ListedFroms ==
    {<<TableWithJoins(f, <<>>), TableWithJoins(g, js)>> :
        f \in {users_u, profiles_p},
        g \in {users_P, Derived(Some(Ident(s_d))), Derived(None), ghosts_plain},
        js \in SeqsUpTo({Join(op, r) : op \in {"Inner", "LeftOuter", "Right", "FullOuter"},
                                       r \in {profiles_E, Derived(Some(Ident(s_d)))}}, 1)}

FromInputs ==
    {Parsed(<<QueryStatement(Query(None, SelectBody(Select(<<UnnamedExpr(Number)>>, from))))>>) :
        from \in JoinedFroms \cup ListedFroms}

(***************************************************************************)
(* Inputs: projections                                                     *)
(***************************************************************************)
MaxItems == 2

profiles_plain == TableFactor(<<Ident(s_profiles)>>, None)

ProjFroms ==
    {<<TableWithJoins(users_plain, <<>>)>>,
     <<TableWithJoins(users_u, <<Join("Left", profiles_p)>>)>>,
     <<TableWithJoins(users_u, <<Join("RightOuter", profiles_p)>>)>>,
     <<TableWithJoins(users_u, <<Join("Inner", profiles_p)>>)>>,
     <<TableWithJoins(users_u, <<Join("LeftOuter", profiles_E)>>)>>,
     <<TableWithJoins(users_plain, <<>>), TableWithJoins(profiles_plain, <<>>)>>}

ProjExprs ==
    {Identifier(s_id), Identifier(s_bio), Identifier(s_NAME_upper), Identifier(s_fake),
     CompoundIdentifier(Ident(s_u), s_id),
     CompoundIdentifier(Ident(s_P_upper), s_id),
     CompoundIdentifier(Ident(s_p), s_fake),
     CompoundIdentifier(QuotedIdent(s_E_acute), s_id),
     CompoundIdentifier(Ident(s_ghosts), s_id),
     Function(s_upper, <<ArgExpr(Identifier(s_fake))>>),
     Function(fn_coalesce, <<ArgExpr(Identifier(s_bio)), ArgExpr(Identifier(s_fake))>>),
     Function(s_MIN_upper, <<ArgExpr(Identifier(s_email))>>),
     Function(s_COUNT_upper, <<ArgWildcard>>),
     BinaryOp(Identifier(s_name), Identifier(s_fake)),
     Nested(Identifier(s_email))}

ProjItems ==
    {UnnamedExpr(e) : e \in ProjExprs}
    \cup {ExprWithAlias(CompoundIdentifier(Ident(s_p), s_id), s_n),
          Wildcard,
          QualifiedWildcard(<<Ident(s_p)>>),
          QualifiedWildcard(<<Ident(s_Users_cap)>>)}

SelectStatement(select) == Parsed(<<QueryStatement(Query(None, SelectBody(select)))>>)

\* the items of the projections of several items
ListItems ==
    {UnnamedExpr(Identifier(s_id)),
     UnnamedExpr(CompoundIdentifier(Ident(s_p), s_fake)),
     UnnamedExpr(CompoundIdentifier(QuotedIdent(s_E_acute), s_id)),
     ExprWithAlias(CompoundIdentifier(Ident(s_p), s_id), s_n),
     Wildcard,
     QualifiedWildcard(<<Ident(s_p)>>)}

ProjInputs ==
    {SelectStatement(Select(projection, from)) :
        projection \in (SeqsUpTo(ProjItems, 1) \cup SeqsUpTo(ListItems, MaxItems)) \ {<<>>},
        from \in ProjFroms}

(***************************************************************************)
(* Inputs: WITH clauses                                                    *)
(***************************************************************************)
MaxCtes == 2

Cte(name, column_aliases, query) ==
    [alias |-> [name |-> Ident(name), columns |-> column_aliases], query |-> query]
With(ctes) == Some([cte_tables |-> ctes])

From(name) == <<TableWithJoins(TableFactor(<<Ident(name)>>, None), <<>>)>>
FromList(names) ==
    [i \in 1..Len(names) |-> TableWithJoins(TableFactor(<<Ident(names[i])>>, None), <<>>)]
Columns(names) == [i \in 1..Len(names) |-> UnnamedExpr(Identifier(names[i]))]
SimpleQuery(names, from) == Query(None, SelectBody(Select(Columns(names), from)))

\* the names of the CTEs of a WITH clause, by position
CteNames == <<s_c1, s_c2, <<"c", "3">>>>

CteBodies ==
    {SimpleQuery(<<s_id>>, From(s_users)),
     SimpleQuery(<<s_id, s_name>>, From(s_users)),
     SimpleQuery(<<s_bio>>, From(s_profiles)),
     SimpleQuery(<<s_fake>>, From(s_users)),
     SimpleQuery(<<s_id>>, From(s_c1)),
     SimpleQuery(<<s_id>>, From(s_c2))}

\* the bodies of the WITH clauses of more than two CTEs
LongCteBodies ==
    {SimpleQuery(<<s_id>>, From(s_users)),
     SimpleQuery(<<s_bio>>, From(s_profiles)),
     SimpleQuery(<<s_id>>, From(s_c2))}

CteLists ==
    UNION {{[i \in 1..k |-> Cte(CteNames[i], <<>>, bodies[i])] :
               bodies \in [1..k -> IF k <= 2 THEN CteBodies ELSE LongCteBodies]} :
           k \in 1..MaxCtes}

CteOuterSelects ==
    {Select(Columns(<<s_id>>), From(s_c1)),
     Select(Columns(<<s_id>>), From(s_c2)),
     Select(Columns(<<s_id>>), FromList(<<s_c1, s_c2>>)),
     Select(Columns(<<s_id>>), FromList(<<s_c1, s_users>>)),
     Select(Columns(<<s_bio>>), FromList(<<s_c1, s_c2, s_profiles>>)),
     Select(<<Wildcard>>, FromList(<<s_c1, s_c2>>)),
     Select(<<Wildcard>>, FromList(<<s_users, s_c1>>)),
     Select(<<UnnamedExpr(CompoundIdentifier(Ident(s_c2), s_id))>>,
            <<TableWithJoins(TableFactor(<<Ident(s_c1)>>, None),
                             <<Join("LeftOuter", TableFactor(<<Ident(s_c2)>>, None))>>)>>),
     Select(<<UnnamedExpr(CompoundIdentifier(Ident(s_c2), s_bio))>>,
            <<TableWithJoins(TableFactor(<<Ident(s_c1)>>, None),
                             <<Join("LeftOuter", TableFactor(<<Ident(s_c2)>>, None))>>)>>),
     Select(<<QualifiedWildcard(<<Ident(s_c2)>>)>>,
            <<TableWithJoins(TableFactor(<<Ident(s_c1)>>, None),
                             <<Join("LeftOuter", TableFactor(<<Ident(s_c2)>>, None))>>)>>),
     Select(<<Wildcard>>,
            <<TableWithJoins(TableFactor(<<Ident(s_users)>>, None),
                             <<Join("FullOuter", TableFactor(<<Ident(s_c1)>>, None))>>)>>)}

\* a column of the column list of a CTE's alias
TableAliasColumnDef(name) == [name |-> Ident(name)]

\* WITH c1(a, ...) AS (...): the column lists, the bodies and the queries
ColumnAliasLists ==
    {<<TableAliasColumnDef(s_a)>>,
     <<TableAliasColumnDef(s_a), TableAliasColumnDef(s_b)>>,
     <<TableAliasColumnDef(s_a), TableAliasColumnDef(s_b), TableAliasColumnDef(s_n)>>}

AliasedCteBodies ==
    {SimpleQuery(<<s_id>>, From(s_users)),
     SimpleQuery(<<s_id, s_bio>>, From(s_profiles)),
     SimpleQuery(<<s_id, s_name, s_email>>, From(s_users)),
     SimpleQuery(<<s_fake>>, From(s_users))}

AliasedCteSelects ==
    {Select(<<Wildcard>>, From(s_c1)),
     Select(Columns(<<s_a>>), From(s_c1)),
     Select(Columns(<<s_b>>), From(s_c1)),
     Select(Columns(<<s_id>>), From(s_c1)),
     Select(Columns(<<s_email>>), From(s_c1))}

s_user_data == <<"u","s","e","r","_","d","a","t","a">>
s_profile_data == <<"p","r","o","f","i","l","e","_","d","a","t","a">>

\* the query of test_validate_multiple_ctes
multiple_ctes ==
    Query(With(<<Cte(s_user_data, <<>>, SimpleQuery(<<s_id, s_name>>, From(s_users))),
                 Cte(s_profile_data, <<>>, SimpleQuery(<<s_user_id, s_bio>>, From(s_profiles)))>>),
          SelectBody(Select(
              <<UnnamedExpr(CompoundIdentifier(Ident(s_u), s_id)),
                UnnamedExpr(CompoundIdentifier(Ident(s_u), s_name)),
                UnnamedExpr(CompoundIdentifier(Ident(s_p), s_bio))>>,
              <<TableWithJoins(TableFactor(<<Ident(s_user_data)>>, Some(Ident(s_u))),
                    <<JoinOn("Left", TableFactor(<<Ident(s_profile_data)>>, Some(Ident(s_p))),
                             BinaryOp(CompoundIdentifier(Ident(s_p), s_user_id),
                                      CompoundIdentifier(Ident(s_u), s_id)))>>)>>)))

CteInputs ==
    {Parsed(<<QueryStatement(multiple_ctes)>>)} \cup
    {Parsed(<<QueryStatement(Query(With(ctes), SelectBody(select)))>>) :
        ctes \in CteLists, select \in CteOuterSelects}
    \cup {Parsed(<<QueryStatement(Query(With(<<Cte(s_c1, aliases, body)>>),
                                        SelectBody(select)))>>) :
             aliases \in ColumnAliasLists, body \in AliasedCteBodies,
             select \in AliasedCteSelects}

(***************************************************************************)
(* Inputs: the clauses of a SELECT other than the projection               *)
(***************************************************************************)
ClauseExprs ==
    {BinaryOp(Identifier(s_fake), Number),
     BinaryOp(CompoundIdentifier(Ident(s_p), s_user_id), CompoundIdentifier(Ident(s_u), s_id)),
     CompoundIdentifier(Ident(s_ghosts), s_id)}

ClauseSelect == Select(<<UnnamedExpr(CompoundIdentifier(Ident(s_u), s_id))>>,
                       <<TableWithJoins(users_u, <<Join("Left", profiles_p)>>)>>)

ClauseQueries ==
    UNION {{Query(None, SelectBody([ClauseSelect EXCEPT !.selection = Some(e)])),
            Query(None, SelectBody([ClauseSelect EXCEPT !.group_by = <<e>>])),
            Query(None, SelectBody([ClauseSelect EXCEPT !.having = Some(e)])),
            Query(None, SelectBody([ClauseSelect EXCEPT
                !.from = <<TableWithJoins(users_u, <<JoinOn("Left", profiles_p, e)>>)>>])),
            [Query(None, SelectBody(ClauseSelect)) EXCEPT !.order_by = <<e>>]} :
           e \in ClauseExprs}

ClauseInputs == {Parsed(<<QueryStatement(q)>>) : q \in ClauseQueries}

(***************************************************************************)
(* Inputs: set operations                                                  *)
(***************************************************************************)
MaxSetOps == 2

SetOperators == {"Union", "Intersect", "Except", "Minus"}

SetOperation(op, left, right) ==
    [set |-> "SetOperation", op |-> op, left |-> left, right |-> right]
SubQuery(query) == [set |-> "Query", query |-> query]
Values == [set |-> "Values"]

with_c1 == With(<<Cte(s_c1, <<>>, SimpleQuery(<<s_email>>, From(s_users)))>>)

ChainSides ==
    {SelectBody(Select(Columns(<<s_id>>), From(s_users))),
     SelectBody(Select(Columns(<<s_bio>>), From(s_profiles))),
     SelectBody(Select(Columns(<<s_id, s_name>>), From(s_users)))}

SetSides ==
    ChainSides
    \cup {SelectBody(Select(Columns(<<s_fake>>), From(s_users))),
          SelectBody(Select(Columns(<<s_email>>), From(s_c1))),
          SelectBody(Select(<<Wildcard>>, FromList(<<s_users, s_profiles>>))),
          SubQuery(Query(with_c1, SelectBody(Select(Columns(<<s_email>>), From(s_c1))))),
          Values}

\* the side a chain of n operations adds to a chain of n - 1
ChainEnds(n) ==
    IF n <= 2 THEN ChainSides
    ELSE {SelectBody(Select(Columns(<<s_bio>>), From(s_profiles)))}

\* the set expressions of n operations that chain to the left or to the right
RECURSIVE SetChains(_)
SetChains(n) ==
    IF n = 1
    THEN {SetOperation(op, l, r) : op \in SetOperators, l \in ChainSides, r \in ChainSides}
    ELSE {SetOperation(op, x, s) : op \in {"Union", "Except"}, x \in SetChains(n - 1),
                                  s \in ChainEnds(n)}
         \cup {SetOperation(op, s, x) : op \in {"Intersect", "Minus"}, x \in SetChains(n - 1),
                                       s \in ChainEnds(n)}

SetOpInputs ==
    {Parsed(<<QueryStatement(Query(with, SetOperation(op, l, r)))>>) :
        with \in {None, with_c1}, op \in SetOperators, l \in SetSides, r \in SetSides}
    \cup {Parsed(<<QueryStatement(Query(None, body))>>) :
             body \in UNION {SetChains(n) : n \in 2..MaxSetOps}}
    \cup {Parsed(<<QueryStatement(Query(with, side))>>) :
             with \in {None, with_c1}, side \in SetSides \ ChainSides}

(***************************************************************************)
(* Inputs: INSERT, UPDATE and DELETE                                       *)
(***************************************************************************)
MaxColumns == 2

Insert(table, column_names, returning) ==
    [stmt |-> "Insert", table |-> table, columns |-> column_names, returning |-> returning]
Update(table, assignments, returning) ==
    [stmt |-> "Update", table |-> table, assignments |-> assignments, returning |-> returning]
Delete(from, returning) == [stmt |-> "Delete", from |-> from, returning |-> returning]
ColumnName(name) == [target |-> [kind |-> "ColumnName", name |-> <<Ident(name)>>]]
Tuple(names) ==
    [target |-> [kind |-> "Tuple", names |-> [i \in 1..Len(names) |-> <<Ident(names[i])>>]]]

TargetNames ==
    {<<Ident(s_users)>>, <<Ident(s_Users_cap)>>, <<Ident(s_ghosts)>>,
     <<QuotedIdent(s_users)>>, <<Ident(s_public), Ident(s_users)>>}

TargetColumns == {Ident(s_id), Ident(s_NAME_upper), Ident(s_fake), Ident(s_ghosts)}

Assignments ==
    {ColumnName(s_id), ColumnName(s_NAME_upper), ColumnName(s_fake),
     Tuple(<<s_email, s_ghosts, s_fake>>), Tuple(<<s_id, s_name>>)}

Returnings ==
    {None,
     Some(<<UnnamedExpr(Identifier(s_id))>>),
     Some(<<ExprWithAlias(Identifier(s_name), s_n)>>),
     Some(<<UnnamedExpr(Identifier(s_fake))>>),
     Some(<<Wildcard>>),
     Some(<<QualifiedWildcard(<<Ident(s_users)>>)>>),
     Some(<<UnnamedExpr(CompoundIdentifier(Ident(s_users), s_email)), Wildcard>>)}

Target(name) == TableWithJoins(TableFactor(name, None), <<>>)

DmlStatements ==
    {Insert(table, column_names, returning) :
        table \in TargetNames, column_names \in SeqsUpTo(TargetColumns, Min(MaxColumns, 2)),
        returning \in Returnings}
    \cup {Insert(<<Ident(s_users)>>, column_names, Some(<<Wildcard>>)) :
             column_names \in SeqsFrom(TargetColumns, 3, MaxColumns)}
    \cup {Update(Target(table), assignments, returning) :
             table \in TargetNames,
             assignments \in SeqsUpTo(Assignments, Min(MaxColumns, 2)) \ {<<>>},
             returning \in Returnings}
    \cup {Update(Target(<<Ident(s_users)>>), assignments, Some(<<Wildcard>>)) :
             assignments \in SeqsFrom(Assignments, 3, MaxColumns)}
    \cup {Delete(<<Target(table)>>, returning) : table \in TargetNames, returning \in Returnings}
    \cup {Update(TableWithJoins(Derived(Some(Ident(s_d))), <<>>), <<ColumnName(s_id)>>, None),
          Delete(<<>>, None),
          Delete(<<TableWithJoins(Derived(None), <<>>)>>, None)}

DmlInputs == {Parsed(<<st>>) : st \in DmlStatements}

(***************************************************************************)
(* Inputs: what validate_query does not dispatch                           *)
(***************************************************************************)
CreateTable == [stmt |-> "CreateTable"]
select_one == QueryStatement(SimpleQuery(<<s_id>>, From(s_users)))

OtherInputs ==
    {[parse_ok |-> FALSE, statements |-> <<>>],
     Parsed(<<>>),
     Parsed(<<select_one, select_one>>),
     Parsed(<<select_one, CreateTable>>),
     Parsed(<<CreateTable>>),
     Parsed(<<[stmt |-> "Truncate"]>>)}

(***************************************************************************)
(* Inputs: min and max                                                     *)
(***************************************************************************)
s_max == <<"m","a","x">>
c1_bio == With(<<Cte(s_c1, <<>>, SimpleQuery(<<s_bio>>, From(s_profiles)))>>)

MinMaxArgs ==
    {<<ArgExpr(Identifier(s_name))>>,
     <<ArgExpr(Identifier(s_bio))>>,
     <<ArgExpr(CompoundIdentifier(Ident(s_p), s_id)), ArgExpr(Identifier(s_fake))>>,
     <<ArgExpr(CompoundIdentifier(Ident(s_p), s_bio))>>,
     <<ArgExpr(CompoundIdentifier(Ident(s_c1), s_bio))>>,
     <<ArgExpr(Identifier(s_fake))>>,
     <<ArgExpr(Number)>>,
     <<ArgWildcard>>,
     <<>>}

MinMaxFroms ==
    {<<TableWithJoins(users_plain, <<>>), TableWithJoins(profiles_plain, <<>>)>>,
     <<TableWithJoins(users_u, <<Join("Inner", profiles_p)>>)>>,
     <<TableWithJoins(users_u, <<Join("LeftOuter", profiles_p)>>)>>,
     <<TableWithJoins(users_u, <<Join("Inner", TableFactor(<<Ident(s_c1)>>, None))>>)>>,
     <<TableWithJoins(users_u, <<Join("Left", TableFactor(<<Ident(s_c1)>>, None))>>)>>}

MinMaxInputs ==
    {Parsed(<<QueryStatement(Query(with, SelectBody(
                Select(<<UnnamedExpr(Function(f, args))>>, from))))>>) :
        with \in {None, c1_bio}, f \in {s_MIN_upper, s_max}, args \in MinMaxArgs,
        from \in MinMaxFroms}

(***************************************************************************)
(* Inputs: function calls                                                  *)
(***************************************************************************)
\* the names infer_expr_type gives a type that does not depend on the
\* arguments
FixedTypeFunctions ==
    {fn_count, fn_sum, fn_avg} \cup DateTimeFunctions \cup StringFunctions \cup I32Functions
    \cup F64Functions \cup DurationFunctions \cup DateFunctions \cup TimeFunctions

s_E_acute_fn == <<"É","f","n">>

FunctionNames ==
    FixedTypeFunctions \cup {to_uppercase(f) : f \in FixedTypeFunctions}
    \cup {s_fake, s_Users_cap, s_E_acute_fn, <<"N","o","w">>, <<>>}

FunctionArgLists ==
    {<<>>,
     <<ArgWildcard>>,
     <<ArgExpr(Identifier(s_fake))>>,
     <<ArgExpr(Identifier(s_email)), ArgExpr(CompoundIdentifier(Ident(s_ghosts), s_id))>>}

FunctionInputs ==
    {SelectStatement(Select(<<UnnamedExpr(Function(f, args))>>, From(s_users))) :
        f \in FunctionNames, args \in FunctionArgLists}

\* SELECT with no item, with no FROM clause and over a derived table only
BareFroms == {<<>>, From(s_users), <<TableWithJoins(Derived(Some(Ident(s_d))), <<>>)>>}

BareInputs ==
    {SelectStatement(Select(projection, from)) :
        projection \in {<<>>, <<Wildcard>>, <<UnnamedExpr(Number)>>,
                        <<Wildcard, UnnamedExpr(Number)>>},
        from \in BareFroms}

Inputs ==
    FromInputs \cup ProjInputs \cup CteInputs \cup ClauseInputs \cup SetOpInputs
    \cup DmlInputs \cup OtherInputs \cup MinMaxInputs \cup FunctionInputs \cup BareInputs

(***************************************************************************)
(* Inputs: the parser's output for the DDL Schema::from_sql reads          *)
(***************************************************************************)
MaxOptions == 2

DataType(name) == [dt |-> name]
ColumnDef(name, data_type, options) ==
    [name |-> Ident(name), data_type |-> data_type, options |-> options]
IndexColumn(name) == [expr |-> "Identifier", ident |-> Ident(name)]
PrimaryKeyConstraint(names) ==
    [constraint |-> "PrimaryKey", columns |-> [i \in 1..Len(names) |-> IndexColumn(names[i])]]
UniqueConstraint(names) ==
    [constraint |-> "Unique", columns |-> [i \in 1..Len(names) |-> IndexColumn(names[i])]]
CreateTableStatement(name, column_defs, constraints) ==
    [stmt |-> "CreateTable", name |-> name, columns |-> column_defs,
     constraints |-> constraints]

\* the DDL of validate.rs's tests
test_ddl ==
    Parsed(<<
        CreateTableStatement(<<Ident(s_users)>>,
            <<ColumnDef(s_id, DataType("Uuid"), <<"NotNull">>),
              ColumnDef(s_name, DataType("Text"), <<"NotNull">>),
              ColumnDef(s_email, DataType("Text"), <<"NotNull">>),
              ColumnDef(s_metadata, DataType("JSONB"), <<"NotNull", "Default">>)>>,
            <<PrimaryKeyConstraint(<<s_id>>)>>),
        CreateTableStatement(<<Ident(s_profiles)>>,
            <<ColumnDef(s_id, DataType("Uuid"), <<"NotNull">>),
              ColumnDef(s_user_id, DataType("Uuid"), <<"NotNull">>),
              ColumnDef(s_bio, DataType("Text"), <<>>),
              ColumnDef(s_avatar_url, DataType("Text"), <<>>)>>,
            <<PrimaryKeyConstraint(<<s_id>>)>>)>>)

\* CREATE TABLE users (id uuid <options>, bio text [, <constraint>])
ColumnOptions == {"NotNull", "Null", "Default", "PrimaryKey", "Unique", "Check"}

s_ID_upper == <<"I","D">>

OptionConstraints ==
    {<<>>,
     <<PrimaryKeyConstraint(<<s_bio>>)>>,
     <<PrimaryKeyConstraint(<<s_ID_upper, s_fake>>)>>,
     <<UniqueConstraint(<<s_bio>>), [constraint |-> "Check"]>>,
     <<[constraint |-> "PrimaryKey",
        columns |-> <<[expr |-> "Function"], IndexColumn(s_bio)>>]>>}

OptionDdls ==
    {Parsed(<<CreateTableStatement(<<Ident(s_users)>>,
                  <<ColumnDef(s_id, DataType("Uuid"), options),
                    ColumnDef(s_bio, DataType("Text"), <<>>)>>,
                  constraints)>>) :
        options \in SeqsUpTo(ColumnOptions, MaxOptions), constraints \in OptionConstraints}

\* CREATE TABLE <name> (id uuid NOT NULL, name text)
NamedTable(name) ==
    CreateTableStatement(name,
        <<ColumnDef(s_id, DataType("Uuid"), <<"NotNull">>),
          ColumnDef(s_name, DataType("Text"), <<>>)>>, <<>>)

\* CREATE TABLE <name> (id uuid NOT NULL, bio text NOT NULL)
OtherTable(name) ==
    CreateTableStatement(name,
        <<ColumnDef(s_id, DataType("Uuid"), <<"NotNull">>),
          ColumnDef(s_bio, DataType("Text"), <<"NotNull">>)>>, <<>>)

TableNames ==
    {<<Ident(s_users)>>, <<Ident(s_Users_cap)>>, <<QuotedIdent(s_Users_cap)>>,
     <<Ident(s_public), Ident(s_users)>>,
     <<Ident(s_public), Ident(s_public), Ident(s_users)>>,
     <<Ident(s_profiles)>>}

NameDdls ==
    {Parsed(<<NamedTable(n)>>) : n \in TableNames}
    \cup {Parsed(<<NamedTable(n1), OtherTable(n2)>>) : n1, n2 \in TableNames}
    \cup {Parsed(<<NamedTable(n), [stmt |-> "CreateIndex"]>>) : n \in TableNames}

\* CREATE TABLE users (id <type>)
Length(n) == Some([kind |-> "IntegerLength", length |-> n])
ArrayOf(def, inner) == [dt |-> "Array", elem |-> [def |-> def, inner |-> inner]]

s_inet == <<"i","n","e","t">>
s_cidr == <<"c","i","d","r">>
s_Status == <<"S","t","a","t","u","s">>

DataTypes ==
    {DataType(n) : n \in {"SmallInt", "Int", "Integer", "BigInt", "Real", "Double",
                          "DoublePrecision", "Numeric", "Decimal", "Text", "Bytea",
                          "Boolean", "Bool", "Date", "Interval", "Uuid", "JSON", "JSONB"}}
    \cup {[dt |-> n, len |-> len] :
            n \in {"Varchar", "CharacterVarying", "Char", "Character"},
            len \in {None, Length(255), Length(3 * TwoPow16 + 7), Some([kind |-> "Max"])}}
    \cup {[dt |-> n, tz |-> tz] :
            n \in {"Timestamp", "Time"},
            tz \in {"None", "WithTimeZone", "WithoutTimeZone", "Tz"}}
    \cup {[dt |-> "Custom", name |-> <<Ident(s_public), Ident(s_fake)>>],
          [dt |-> "Regclass", debug |-> <<"R","e","g","c","l","a","s","s">>]}
    \cup {[dt |-> "Custom", name |-> <<Ident(n)>>] : n \in {s_inet, s_cidr, s_Status}}
    \cup {[dt |-> "Numeric", info |-> <<10, 2>>],
          [dt |-> "Int2", debug |-> <<"I","n","t","2","(","N","o","n","e",")">>],
          [dt |-> "Int4", debug |-> <<"I","n","t","4","(","N","o","n","e",")">>],
          [dt |-> "Int8", debug |-> <<"I","n","t","8","(","N","o","n","e",")">>]}

ArrayTypes ==
    {ArrayOf(def, inner) :
        def \in {"AngleBracket", "SquareBracket", "Parenthesis"},
        inner \in {DataType("Text"), ArrayOf("SquareBracket", DataType("Int")),
                   [dt |-> "Array", elem |-> [def |-> "None"]]}}
    \cup {[dt |-> "Array", elem |-> [def |-> "None"]]}

TypeDdls ==
    {Parsed(<<CreateTableStatement(<<Ident(s_users)>>,
                  <<ColumnDef(s_id, dt, <<"PrimaryKey">>)>>, <<>>)>>) :
        dt \in DataTypes \cup ArrayTypes}

\* the queries validated against the catalogs of NameDdls: every table name
\* is spelled as one of the CREATE TABLE statements spells it
NameQueries ==
    {SelectStatement(Select(projection, from)) :
        projection \in {<<Wildcard>>, Columns(<<s_id>>)},
        from \in {From(s_users), From(s_Users_cap),
                  <<TableWithJoins(TableFactor(<<Ident(s_public), Ident(s_users)>>, None),
                                   <<>>)>>}}

\* the query validated against the catalogs of OptionDdls and TypeDdls
ColumnQueries == {SelectStatement(Select(Columns(<<s_id>>), From(s_users)))}

\* the pairs of a DDL and a query, other than the DDL of the tests
SchemaInputs ==
    ((OptionDdls \cup TypeDdls) \X ColumnQueries)
    \cup ((NameDdls \cup {[parse_ok |-> FALSE, statements |-> <<>>], Parsed(<<>>)})
              \X NameQueries)

(***************************************************************************)
(* Inputs: the type names from_sql_name is applied to                      *)
(***************************************************************************)
NamePrefixes ==
    {<<"c","h","a","r">>,
     <<"v","a","r","c","h","a","r">>,
     <<"c","h","a","r","a","c","t","e","r"," ","v","a","r","y","i","n","g">>,
     <<"c","h","a","r","a","c","t","e","r">>,
     <<"C","h","a","r">>,
     <<"V","A","R","C","H","A","R">>,
     <<"c","h","a","r","é">>,
     <<" ","c","h","a","r">>,
     <<"t","e","x","t">>,
     <<"i","n","t","4">>,
     <<>>,
     <<"f","o","o">>,
     <<"c","h","a","r","s","e","t">>,
     <<"T","I","M","E","S","T","A","M","P"," ","W","I","T","H"," ","T","I","M","E"," ","Z","O","N","E">>,
     <<"É">>}

\* length qualifiers, well formed and not
Qualifiers ==
    {<<>>,
     <<"(","1",")">>,
     <<"(">>,
     <<")">>,
     <<")","(">>,
     <<"(",")">>,
     <<"(","x",")">>,
     <<"(","+","1","2",")">>,
     <<"(","4","2","9","4","9","6","7","2","9","5",")">>,
     <<"(","4","2","9","4","9","6","7","2","9","6",")">>,
     <<")","1","(">>,
     <<"(","1",")","(","2",")">>,
     <<"(","(","1",")",")">>,
     <<" ","(","2","5","5",")"," ">>}

\* nested array suffixes
ArraySuffixes ==
    {<<>>,
     <<"[","]">>,
     <<"[","]","[","]">>,
     <<" ","a","r","r","a","y">>,
     <<" ","A","R","R","A","Y","[","]">>,
     <<"[","]"," ","A","r","r","a","y"," ">>,
     <<" ">>}

TypeNames == {p \o q \o a : p \in NamePrefixes, q \in Qualifiers, a \in ArraySuffixes}

(***************************************************************************)
(* validate_query, step by step                                            *)
(***************************************************************************)
Statement == sql.statements[1]
CteTables == IF Statement.query.with # None THEN Statement.query.with[1].cte_tables ELSE <<>>
Body == Statement.query.body

Init ==
    /\ \/ ddl = test_ddl /\ sql \in Inputs
       \/ \E input \in SchemaInputs : ddl = input[1] /\ sql = input[2]
    /\ schema = Schema_new
    /\ pc = "load"
    /\ ctx = ResolveContext_default
    /\ iter = <<>>
    /\ next_cte = 1
    /\ next_from = 1
    /\ next_item = 1
    /\ columns = <<>>
    /\ result = None
    /\ type_name = <<>>
    /\ postgres_type = None
    /\ text = <<>>
    /\ params = 0
    /\ expansion = None

Return(r) ==
    /\ result' = Some(r)
    /\ pc' = "done"

\* Schema::from_sql: the catalog is built, or the load fails with SchemaParse
\* and no query is validated
LoadSchema ==
    /\ pc = "load"
    /\ \E r \in {from_sql(ddl)} :
          IF r.ok
          THEN schema' = r.schema /\ pc' = "start"
          ELSE schema' = schema /\ pc' = "schema_error"
    /\ UNCHANGED <<text, params, expansion, type_name, postgres_type, ddl, sql, ctx, iter, next_cte, next_from, next_item, columns, result>>

\* validate_query: the parse, the statement count and the dispatch
ValidateQuery ==
    /\ pc = "start"
    /\ IF ~sql.parse_ok \/ Len(sql.statements) # 1
          \/ Statement.stmt \notin {"Query", "Insert", "Update", "Delete"}
       THEN \E r \in validate_query(schema, sql) : Return(r)
       ELSE /\ pc' = Statement.stmt
            /\ result' = result
    /\ UNCHANGED <<text, params, expansion, type_name, postgres_type, ddl, schema, sql, ctx, iter, next_cte, next_from, next_item, columns>>

\* validate_select: one iteration of the loop over the WITH clause
AddCte ==
    /\ pc = "Query"
    /\ next_cte <= Len(CteTables)
    /\ \E r \in validate_select(schema, CteTables[next_cte].query) :
          IF r.ok
          THEN /\ ctx' = add_cte(ctx, CteTables[next_cte].alias.name.value,
                                 cte_result_columns(CteTables[next_cte], r.columns))
               /\ next_cte' = next_cte + 1
               /\ UNCHANGED <<pc, result>>
          ELSE /\ Return(r)
               /\ UNCHANGED <<ctx, next_cte>>
    /\ UNCHANGED <<text, params, expansion, type_name, postgres_type, ddl, schema, sql, iter, next_from, next_item, columns>>

\* validate_set_expr on a SetExpr::Select: validate_select_body_with_ctx begins
ValidateSelectBody ==
    /\ pc = "Query"
    /\ next_cte > Len(CteTables)
    /\ Body.set = "Select"
    /\ pc' = "from"
    /\ UNCHANGED <<text, params, expansion, type_name, postgres_type, ddl, schema, sql, ctx, iter, next_cte, next_from, next_item, columns, result>>

\* validate_set_expr on any other SetExpr
ValidateSetExpr ==
    /\ pc = "Query"
    /\ next_cte > Len(CteTables)
    /\ Body.set # "Select"
    /\ \E r \in validate_set_expr(schema, Body, ctx) : Return(r)
    /\ UNCHANGED <<text, params, expansion, type_name, postgres_type, ddl, schema, sql, ctx, iter, next_cte, next_from, next_item, columns>>

\* validate_select_body_with_ctx: one iteration of the loop over select.from
ResolveTableRefs ==
    /\ pc = "from"
    /\ next_from <= Len(Body.select.from)
    /\ \E r \in {resolve_table_refs(schema, Body.select.from[next_from], ctx)} :
          IF r.ok
          THEN /\ ctx' = r.ctx
               /\ next_from' = next_from + 1
               /\ UNCHANGED <<pc, result>>
          ELSE /\ Return(r)
               /\ UNCHANGED <<ctx, next_from>>
    /\ UNCHANGED <<text, params, expansion, type_name, postgres_type, ddl, schema, sql, iter, next_cte, next_item, columns>>

\* The FROM clause is resolved: ctx.table_aliases is not changed any more,
\* and every loop over it visits its keys in one order, which the program
\* does not choose.
BeginProjection ==
    /\ pc = "from"
    /\ next_from > Len(Body.select.from)
    /\ iter' \in Perms(DOMAIN ctx.table_aliases)
    /\ pc' = "project"
    /\ UNCHANGED <<text, params, expansion, type_name, postgres_type, ddl, schema, sql, ctx, next_cte, next_from, next_item, columns, result>>

\* validate_select_body_with_ctx: one iteration of the loop over the projection
SelectItem ==
    /\ pc = "project"
    /\ next_item <= Len(Body.select.projection)
    /\ \E r \in {select_item(schema, ctx, iter, Body.select.projection[next_item])} :
          IF r.ok
          THEN /\ columns' = columns \o r.columns
               /\ next_item' = next_item + 1
               /\ UNCHANGED <<pc, result>>
          ELSE /\ Return(r)
               /\ UNCHANGED <<columns, next_item>>
    /\ UNCHANGED <<text, params, expansion, type_name, postgres_type, ddl, schema, sql, ctx, iter, next_cte, next_from>>

\* validate_select_body_with_ctx returns Ok(QueryResult { columns })
ReturnColumns ==
    /\ pc = "project"
    /\ next_item > Len(Body.select.projection)
    /\ Return(Ok(columns))
    /\ UNCHANGED <<text, params, expansion, type_name, postgres_type, ddl, schema, sql, ctx, iter, next_cte, next_from, next_item, columns>>

ValidateInsert ==
    /\ pc = "Insert"
    /\ Return(validate_insert(schema, Statement))
    /\ UNCHANGED <<text, params, expansion, type_name, postgres_type, ddl, schema, sql, ctx, iter, next_cte, next_from, next_item, columns>>

ValidateUpdate ==
    /\ pc = "Update"
    /\ Return(validate_update(schema, Statement))
    /\ UNCHANGED <<text, params, expansion, type_name, postgres_type, ddl, schema, sql, ctx, iter, next_cte, next_from, next_item, columns>>

ValidateDelete ==
    /\ pc = "Delete"
    /\ Return(validate_delete(schema, Statement))
    /\ UNCHANGED <<text, params, expansion, type_name, postgres_type, ddl, schema, sql, ctx, iter, next_cte, next_from, next_item, columns>>

\* query!: the rest of the macro once validate_query has returned
ExpandQuery ==
    /\ pc = "done"
    /\ \E e \in {query_macro(result[1], text, params)} :
          /\ expansion' = Some(e)
          /\ pc' = IF "error" \in DOMAIN e THEN "compile_error" ELSE "generated"
    /\ UNCHANGED <<text, params, type_name, postgres_type, ddl, schema, sql, ctx, iter, next_cte,
                   next_from, next_item, columns, result>>

Next ==
    \/ LoadSchema
    \/ ValidateQuery
    \/ AddCte
    \/ ValidateSelectBody
    \/ ValidateSetExpr
    \/ ResolveTableRefs
    \/ BeginProjection
    \/ SelectItem
    \/ ReturnColumns
    \/ ValidateInsert
    \/ ValidateUpdate
    \/ ValidateDelete
    \/ ExpandQuery

Spec == Init /\ [][Next]_vars

(***************************************************************************)
(* PostgresType::from_sql_name, called on its own                          *)
(***************************************************************************)
TypeInit ==
    /\ type_name \in TypeNames
    /\ postgres_type = None
    /\ pc = "from_sql_name"
    /\ ddl = Parsed(<<>>)
    /\ schema = Schema_new
    /\ sql = Parsed(<<>>)
    /\ ctx = ResolveContext_default
    /\ iter = <<>>
    /\ next_cte = 1
    /\ next_from = 1
    /\ next_item = 1
    /\ columns = <<>>
    /\ result = None
    /\ text = <<>>
    /\ params = 0
    /\ expansion = None

FromSqlName ==
    /\ pc = "from_sql_name"
    /\ postgres_type' = Some(from_sql_name(type_name))
    /\ pc' = "returned"
    /\ UNCHANGED <<text, params, expansion, type_name, ddl, schema, sql, ctx, iter, next_cte,
                   next_from, next_item, columns, result>>

TypeNext == FromSqlName

TypeSpec == TypeInit /\ [][TypeNext]_vars

(***************************************************************************)
(* query!, for the strings it scans for placeholders                       *)
(***************************************************************************)
MaxTokens == 2

MaxParams == 2

\* pieces of SQL text around placeholders
Tokens ==
    {<<"$","1">>, <<"$","2">>, <<"$","1","0">>, <<"$","0","1">>, <<"$","0">>, <<"$">>,
     <<"a">>, <<"9">>, <<"'">>, <<" ">>,
     <<"$">> \o usize_MAX,
     <<"$","1","8","4","4","6","7","4","4","0","7","3","7","0","9","5","5","1","6","1","6">>}

RECURSIVE Texts(_)
Texts(n) ==
    IF n = 0 THEN {<<>>}
    ELSE Texts(n - 1) \cup {t \o token : t \in Texts(n - 1), token \in Tokens}

\* what validate_query returned for the string
Validated ==
    {Ok(<<QueryColumn(s_id, to_rust_type([t |-> "Uuid"]))>>), Err(UnknownTable(s_users))}

MacroInit ==
    /\ text \in Texts(MaxTokens)
    /\ params \in 0..MaxParams
    /\ result \in {Some(r) : r \in Validated}
    /\ expansion = None
    /\ pc = "done"
    /\ type_name = <<>>
    /\ postgres_type = None
    /\ ddl = Parsed(<<>>)
    /\ schema = Schema_new
    /\ sql = Parsed(<<>>)
    /\ ctx = ResolveContext_default
    /\ iter = <<>>
    /\ next_cte = 1
    /\ next_from = 1
    /\ next_item = 1
    /\ columns = <<>>

MacroNext == ExpandQuery

MacroSpec == MacroInit /\ [][MacroNext]_vars

\* Loading the DDL of the tests gives the catalog of the tests.
TestSchemaLoaded == from_sql(test_ddl) = [ok |-> TRUE, schema |-> test_schema]

\* The steps return what validate_query returns.
StepsAgree == pc = "done" => result[1] \in validate_query(schema, sql)

(***************************************************************************)
(* Join nullability marks                                                  *)
(***************************************************************************)
\* the name a table factor is known by in a FROM clause
AliasOf(factor) ==
    IF factor.alias # None THEN {factor.alias[1].value}
    ELSE IF factor.factor = "Table" THEN {factor.name[Len(factor.name)].value}
    ELSE {}

\* the aliases the joins of one TableWithJoins make nullable
JoinMarks(twj) ==
    UNION {(IF twj.joins[i].join_operator \in
                {"Left", "LeftOuter", "LeftSemi", "LeftAnti", "FullOuter"}
            THEN AliasOf(twj.joins[i].relation) ELSE {})
           \cup
           (IF twj.joins[i].join_operator \in
                {"Right", "RightOuter", "RightSemi", "RightAnti", "FullOuter"}
            THEN AliasOf(twj.relation) ELSE {}) : i \in 1..Len(twj.joins)}

\* the entries of the FROM clause resolve_table_refs has processed
ResolvedFrom == {Body.select.from[j] : j \in 1..(next_from - 1)}

\* C1: once resolve_table_refs has processed a TableWithJoins whose factors
\* all resolve, the aliases marked nullable are exactly the joined relation
\* of each LEFT join, the leftmost relation for each RIGHT join and both for
\* each FULL OUTER join, of this and of the entries processed before; INNER
\* and CROSS joins add none, no mark is lost, and no alias is marked twice.
C1_JoinMarks ==
    pc \in {"from", "project"} =>
        /\ Range(ctx.nullable_tables) =
              {to_lowercase(a) : a \in UNION {JoinMarks(twj) : twj \in ResolvedFrom}}
        /\ Cardinality(Range(ctx.nullable_tables)) = Len(ctx.nullable_tables)

\* users u FULL OUTER JOIN profiles p LEFT JOIN profiles p: p is marked by
\* both joins and u by the first
C1_Witness ==
    /\ pc = "from"
    /\ next_from = 2
    /\ Len(Body.select.from[1].joins) = 2
    /\ Body.select.from[1].joins[1].join_operator = "FullOuter"
    /\ Body.select.from[1].joins[2].join_operator = "Left"
    /\ Body.select.from[1].joins[1].relation = Body.select.from[1].joins[2].relation
    /\ ctx.nullable_tables = <<s_u, s_p>>

(***************************************************************************)
(* Column references                                                       *)
(***************************************************************************)
SameName(x, y) == to_lowercase(x) = to_lowercase(y)

\* the table factors of a FROM clause
FromFactors(from) ==
    UNION {{from[i].relation} \cup {from[i].joins[j].relation : j \in 1..Len(from[i].joins)} :
           i \in 1..Len(from)}

\* the factors of a FROM clause that name a table of the schema
SchemaFactors(c, from) ==
    {f \in FromFactors(from) :
        /\ f.factor = "Table"
        /\ get_cte(c, f.name[Len(f.name)].value) = None
        /\ has_table(schema, f.name[Len(f.name)].value)}

FactorTable(f) == get_table(schema, f.name[Len(f.name)].value)[1]

IsColumnRef(e) ==
    \/ e.expr = "Identifier"
    \/ e.expr = "CompoundIdentifier" /\ Len(e.idents) = 2

RefColumn(e) == IF e.expr = "Identifier" THEN e.ident.value ELSE e.idents[2].value

\* the schema-table factors a column reference can denote: those that hold
\* the column and, for a qualified reference, are known by its qualifier
RefFactors(c, from, e) ==
    {f \in SchemaFactors(c, from) :
        /\ has_column(FactorTable(f), RefColumn(e))
        /\ e.expr = "CompoundIdentifier" =>
              \E a \in AliasOf(f) : SameName(a, e.idents[1].value)}

\* the reference resolves to a column of one schema table
ResolvesToSchemaColumn(c, from, e) ==
    /\ IsColumnRef(e)
    /\ FromFactors(from) = SchemaFactors(c, from)
    /\ \A f, g \in FromFactors(from) :
          (\E a \in AliasOf(f), b \in AliasOf(g) : SameName(a, b)) => f = g
    /\ Cardinality(RefFactors(c, from, e)) = 1

\* an outer join of the FROM clause marks the factor nullable
MarkedNullable(from, f) ==
    \E a \in AliasOf(f), m \in UNION {JoinMarks(from[i]) : i \in 1..Len(from)} : SameName(a, m)

\* the column the spec gives a reference that resolves to a schema column
SchemaColumnOf(c, from, e) ==
    LET f == CHOOSE g \in RefFactors(c, from, e) : TRUE
        col == get_column(FactorTable(f), RefColumn(e))[1]
    IN QueryColumn(RefColumn(e),
                   IF col.nullable \/ MarkedNullable(from, f)
                   THEN [t |-> "Option", inner |-> to_rust_type(col.data_type)]
                   ELSE to_rust_type(col.data_type))

IsSelect == sql.parse_ok /\ Len(sql.statements) = 1 /\ Statement.stmt = "Query" /\ Body.set = "Select"

\* the item of the projection the last SelectItem step worked on, if any
TypedItem ==
    IF IsSelect /\ pc = "project" /\ next_item > 1
    THEN Some(Body.select.projection[next_item - 1])
    ELSE None

\* the item of the projection validation stopped at with an error, if any
FailedItem ==
    IF IsSelect /\ pc = "done" /\ next_from > Len(Body.select.from)
       /\ next_item <= Len(Body.select.projection)
    THEN Some(Body.select.projection[next_item])
    ELSE None

\* C2: a column reference, qualified or not, that resolves to a column of a
\* schema table is typed, under the name written in the query, with the
\* mapping of the declared type, wrapped in one Option exactly when the
\* column is nullable or its alias is marked nullable by an outer join.
C2_ColumnReferenceType ==
    /\ \A item \in Range(TypedItem) :
          item.item = "UnnamedExpr" /\ ResolvesToSchemaColumn(ctx, Body.select.from, item.expr)
          => columns[Len(columns)] = SchemaColumnOf(ctx, Body.select.from, item.expr)
    /\ \A item \in Range(FailedItem) :
          item.item = "UnnamedExpr"
          => ~ResolvesToSchemaColumn(ctx, Body.select.from, item.expr)

(***************************************************************************)
(* The scope of CTEs                                                       *)
(***************************************************************************)
IsQuery == sql.parse_ok /\ Len(sql.statements) = 1 /\ Statement.stmt = "Query"

\* the CTEs declared before position i of the WITH clause
DeclaredBefore(i) == {CteTables[j].alias.name.value : j \in 1..(i - 1)}

\* the names the FROM clause of a plain SELECT query reads
FromNames(query) ==
    IF query.body.set = "Select"
    THEN {f.name[Len(f.name)].value :
             f \in {g \in FromFactors(query.body.select.from) : g.factor = "Table"}}
    ELSE {}

\* a relation name is visible in a scope holding the CTEs named in ctes
Visible(name, ctes) == has_table(schema, name) \/ \E c \in ctes : SameName(c, name)

\* the query validate_select is resolving: the body of the CTE the loop over
\* the WITH clause is at, or the final query
ResolvedQuery ==
    IF next_cte <= Len(CteTables) THEN CteTables[next_cte].query ELSE Statement.query

\* C3: in WITH c1 AS (Q1), c2 AS (Q2) Q3 the body of a CTE is resolved in a
\* scope that holds the CTEs declared before it and not itself, and the final
\* query in a scope that holds them all: a body is accepted only if the names
\* of its FROM clause are visible in that scope, and no query is rejected
\* with UnknownTable for a name that is visible in its scope.
C3_CteScope ==
    IsQuery =>
        /\ \A i \in 1..(next_cte - 1) :
              \A n \in FromNames(CteTables[i].query) : Visible(n, DeclaredBefore(i))
        /\ \A r \in Range(result) :
              ~r.ok /\ r.err.kind = "UnknownTable" /\ ResolvedQuery.body.set = "Select"
              => ~Visible(r.err.name, DeclaredBefore(next_cte))

(***************************************************************************)
(* Unqualified column names                                                *)
(***************************************************************************)
\* the alias of a scope is bound to a schema table or to a CTE that holds a
\* column of the name
AliasHasColumn(c, alias, name) ==
    IF starts_with(c.table_aliases[alias], cte_prefix)
    THEN \E cte \in Range(get_cte(c, strip_prefix(c.table_aliases[alias], cte_prefix)[1])) :
            find_cte_column(cte, name) # None
    ELSE \E table \in Range(get_table(schema, c.table_aliases[alias])) :
            has_column(table, name)

Candidates(c, name) == {alias \in DOMAIN c.table_aliases : AliasHasColumn(c, alias, name)}

IsUnqualified(item) ==
    item.item \in {"UnnamedExpr", "ExprWithAlias"} /\ item.expr.expr = "Identifier"

\* C5: an unqualified column name that matches a column in more than one
\* alias in scope, bound to schema tables, to CTEs or to both, is rejected
\* with AmbiguousColumn(name) and never resolved; a name that matches no
\* alias in scope is rejected with UnknownColumn.
C5_AmbiguousColumn ==
    /\ \A item \in Range(TypedItem) :
          IsUnqualified(item) => Cardinality(Candidates(ctx, item.expr.ident.value)) = 1
    /\ \A item \in Range(FailedItem) :
          IsUnqualified(item) =>
             /\ Cardinality(Candidates(ctx, item.expr.ident.value)) > 1
                   => result[1] = Err(AmbiguousColumn(item.expr.ident.value))
             /\ Cardinality(Candidates(ctx, item.expr.ident.value)) = 0
                   => ~result[1].ok /\ result[1].err.kind = "UnknownColumn"

(***************************************************************************)
(* The order of the columns of SELECT *                                    *)
(***************************************************************************)
\* the table factors of one TableWithJoins, in the order they are written
RECURSIVE JoinedFactors(_, _)
JoinedFactors(joins, i) ==
    IF i > Len(joins) THEN <<>> ELSE <<joins[i].relation>> \o JoinedFactors(joins, i + 1)

\* the table factors of a FROM clause, in the order they are written
RECURSIVE FactorsInOrder(_, _)
FactorsInOrder(from, i) ==
    IF i > Len(from) THEN <<>>
    ELSE <<from[i].relation>> \o JoinedFactors(from[i].joins, 1) \o FactorsInOrder(from, i + 1)

\* the aliases a FROM clause binds, in the order they are written
RECURSIVE AliasesInOrder(_, _)
AliasesInOrder(factors, i) ==
    IF i > Len(factors) THEN <<>>
    ELSE (IF AliasOf(factors[i]) = {} THEN <<>>
          ELSE <<to_lowercase(CHOOSE a \in AliasOf(factors[i]) : TRUE)>>)
         \o AliasesInOrder(factors, i + 1)

FromOrder == AliasesInOrder(FactorsInOrder(Body.select.from, 1), 1)

\* the FROM clause binds two or more aliases, each once
BindsSeveralAliases ==
    /\ Len(FromOrder) >= 2
    /\ Cardinality(Range(FromOrder)) = Len(FromOrder)

\* C10: SELECT * over a FROM clause that binds two or more aliases lists the
\* columns of the aliases in the order of the FROM clause, and those of one
\* alias in the order of its schema table or of its CTE's column list.
C10_WildcardOrder ==
    IsSelect /\ pc = "done" /\ result[1].ok
    /\ Body.select.projection = <<Wildcard>> /\ BindsSeveralAliases
    => result[1].columns = wildcard_columns(schema, ctx, FromOrder, 1)

(***************************************************************************)
(* The column references of a SELECT                                       *)
(***************************************************************************)
\* the column references of an expression: those in the arguments of its
\* function calls and in both operands of its binary operators included
RECURSIVE ColumnRefs(_)
ColumnRefs(e) ==
    CASE e.expr \in {"Identifier", "CompoundIdentifier"} -> {e}
      [] e.expr = "Function" ->
            UNION {ColumnRefs(a.value.expr) :
                      a \in {b \in Range(e.args.args) : b.value.kind = "Expr"}}
      [] e.expr = "BinaryOp" -> ColumnRefs(e.left) \cup ColumnRefs(e.right)
      [] e.expr = "Nested" -> ColumnRefs(e.inner)
      [] OTHER -> {}

\* the expressions of a query: projection, WHERE, JOIN ON, GROUP BY, HAVING
\* and ORDER BY
QueryExprs(query) ==
    LET select == query.body.select
    IN {item.expr : item \in {i \in Range(select.projection) :
                                 i.item \in {"UnnamedExpr", "ExprWithAlias"}}}
       \cup Range(select.selection)
       \cup UNION {UNION {Range(select.from[i].joins[j].constraint) :
                             j \in 1..Len(select.from[i].joins)} : i \in 1..Len(select.from)}
       \cup Range(select.group_by)
       \cup Range(select.having)
       \cup Range(query.order_by)

\* the reference names a column of a relation of the scope
Resolvable(c, e) ==
    IF e.expr = "Identifier" THEN Candidates(c, e.ident.value) # {}
    ELSE /\ Len(e.idents) = 2
         /\ to_lowercase(e.idents[1].value) \in DOMAIN c.table_aliases
         /\ AliasHasColumn(c, to_lowercase(e.idents[1].value), e.idents[2].value)

\* C6: validate_query accepts a SELECT only if every column reference of the
\* statement resolves to a column of a relation in scope: in the projection,
\* function arguments and both operands of binary operators included, and in
\* the WHERE, JOIN ON, GROUP BY, HAVING and ORDER BY clauses.
C6_EveryReferenceResolves ==
    IsSelect /\ pc = "done" /\ result[1].ok
    => \A e \in QueryExprs(Statement.query) : \A ref \in ColumnRefs(e) : Resolvable(ctx, ref)

(***************************************************************************)
(* Set operations                                                          *)
(***************************************************************************)
\* the set operations a set expression is built of, itself included
RECURSIVE SetOperationsOf(_)
SetOperationsOf(set_expr) ==
    IF set_expr.set = "SetOperation"
    THEN {set_expr} \cup SetOperationsOf(set_expr.left) \cup SetOperationsOf(set_expr.right)
    ELSE {}

Keyword(op) ==
    CASE op = "Union" -> "UNION"
      [] op = "Intersect" -> "INTERSECT"
      [] op = "Except" -> "EXCEPT"
      [] op = "Minus" -> "MINUS"

\* res is what the spec gives for `A op B` when A gives l and B gives r
SetOperationOutcome(op, res, l, r) ==
    /\ res.ok <=> (l.ok /\ r.ok /\ Len(l.columns) = Len(r.columns))
    /\ res.ok => res.columns = l.columns
    /\ l.ok /\ r.ok /\ Len(l.columns) # Len(r.columns) =>
          /\ res.err.kind = "InvalidQuery"
          /\ res.err.msg[1] = Keyword(op)
          /\ res.err.msg[3] = Len(l.columns)
          /\ res.err.msg[5] = Len(r.columns)

\* the results of the set operation e of the statement: the result of the
\* statement for the body itself
ResultsOf(e) ==
    IF e = Body THEN Range(result) ELSE validate_set_expr(schema, e, ResolveContext_default)

\* C4: a set operation `A op B`, at any depth, with each side validated in a
\* fresh scope that holds no CTE of the enclosing WITH clause, succeeds if
\* and only if A validates, B validates and their column counts are equal;
\* the result then is A's column list; on a count mismatch the error is
\* InvalidQuery and its message has the operator name and both counts.
C4_SetOperation ==
    IsQuery /\ pc = "done" /\ next_cte > Len(CteTables) =>
        \A e \in SetOperationsOf(Body) :
            \A res \in ResultsOf(e) :
                \E l \in validate_set_expr(schema, e.left, ResolveContext_default),
                   r \in validate_set_expr(schema, e.right, ResolveContext_default) :
                    SetOperationOutcome(e.op, res, l, r)

\* (A UNION B) EXCEPT C validates, with the names of A's columns
C4_Witness ==
    /\ IsQuery /\ pc = "done"
    /\ Body.set = "SetOperation"
    /\ Body.left.set = "SetOperation"
    /\ Body.left.left # Body.left.right
    /\ result[1].ok
    /\ result[1].columns # <<>>

(***************************************************************************)
(* What validate_query does not validate                                   *)
(***************************************************************************)
Supported == {"Query", "Insert", "Update", "Delete"}

\* C7: validate_query returns InvalidQuery, and validates nothing, when the
\* parsed input is not exactly one statement or its statement is no SELECT,
\* INSERT, UPDATE or DELETE; for the latter the message lists the four
\* supported statements.
C7_InvalidQuery ==
    pc = "done" /\ sql.parse_ok
    /\ (Len(sql.statements) # 1 \/ Statement.stmt \notin Supported)
    => /\ ~result[1].ok
       /\ result[1].err.kind = "InvalidQuery"
       /\ ctx = ResolveContext_default
       /\ columns = <<>>
       /\ next_cte = 1 /\ next_from = 1 /\ next_item = 1
       /\ Len(sql.statements) = 1 =>
             {"SELECT", "INSERT", "UPDATE", "DELETE"} \subseteq Range(result[1].err.msg)

\* two statements, the first a SELECT that validates on its own
C7_Witness ==
    /\ pc = "done"
    /\ Len(sql.statements) = 2
    /\ sql.statements[1].stmt = "Query"
    /\ result[1] = Err(InvalidQuery(<<"Expected exactly one statement">>))

(***************************************************************************)
(* The targets of INSERT and UPDATE                                        *)
(***************************************************************************)
IsDml(kinds) == sql.parse_ok /\ Len(sql.statements) = 1 /\ Statement.stmt \in kinds

\* the name of the table the statement writes to, as the parser gives it
TargetObjectName ==
    CASE Statement.stmt = "Insert" -> Statement.table
      [] Statement.stmt = "Update" -> Statement.table.relation.name
      [] Statement.stmt = "Delete" -> Statement.from[1].relation.name

\* the statement names its target by a table name
HasTargetName ==
    /\ Statement.stmt = "Update" => Statement.table.relation.factor = "Table"
    /\ Statement.stmt = "Delete" =>
          Len(Statement.from) > 0 /\ Statement.from[1].relation.factor = "Table"
    /\ Len(TargetObjectName) > 0

TargetTableName == TargetObjectName[Len(TargetObjectName)].value

\* the column names of one assignment target, in the order they are written
AssignedColumns(target) ==
    IF target.kind = "ColumnName" THEN <<target.name[Len(target.name)].value>>
    ELSE [i \in 1..Len(target.names) |-> target.names[i][Len(target.names[i])].value]

RECURSIVE AllAssignedColumns(_, _)
AllAssignedColumns(assignments, i) ==
    IF i > Len(assignments) THEN <<>>
    ELSE AssignedColumns(assignments[i].target) \o AllAssignedColumns(assignments, i + 1)

\* the target columns the statement names, in statement order
NamedColumns ==
    CASE Statement.stmt = "Insert" -> [i \in 1..Len(Statement.columns) |-> Statement.columns[i].value]
      [] Statement.stmt = "Update" -> AllAssignedColumns(Statement.assignments, 1)
      [] Statement.stmt = "Delete" -> <<>>

\* the positions of the named columns the target table does not hold
UnknownPositions ==
    {i \in 1..Len(NamedColumns) :
        ~has_column(get_table(schema, TargetTableName)[1], NamedColumns[i])}

\* C8: an INSERT with a column list and an UPDATE with SET assignments, of
\* one column or of a tuple, give UnknownTable when the target table is not
\* in the schema, and otherwise, when a named target column is not in the
\* target table (names compared without regard to case), UnknownColumn with
\* the target table and the first such name in statement order, with and
\* without RETURNING.
C8_TargetColumns ==
    IsDml({"Insert", "Update"}) /\ HasTargetName /\ pc = "done" =>
        IF ~has_table(schema, TargetTableName)
        THEN ~result[1].ok /\ result[1].err.kind = "UnknownTable"
        ELSE UnknownPositions # {} =>
                result[1] = Err(UnknownColumn(TargetTableName,
                                    NamedColumns[CHOOSE i \in UnknownPositions :
                                                    \A j \in UnknownPositions : i <= j]))

(***************************************************************************)
(* RETURNING                                                               *)
(***************************************************************************)
\* the statement SELECT R FROM T for the RETURNING list R and the target T
SelectReturning ==
    Query(None, SelectBody(Select(Statement.returning[1],
                                  <<TableWithJoins(TableFactor(TargetObjectName, None), <<>>)>>)))

\* C9: an INSERT, UPDATE or DELETE on an existing table T with a RETURNING
\* list R gives what validating SELECT R FROM T gives, for expressions,
\* aliased expressions, `*` and `T.*`; without RETURNING it gives the empty
\* column list.
C9_Returning ==
    IsDml({"Insert", "Update", "Delete"}) /\ HasTargetName /\ pc = "done"
    /\ has_table(schema, TargetTableName) /\ UnknownPositions = {}
    => IF Statement.returning = None
       THEN result[1] = Ok(<<>>)
       ELSE result[1] \in validate_select(schema, SelectReturning)

(***************************************************************************)
(* Wildcards over outer-joined aliases                                     *)
(***************************************************************************)
\* the projection is a single `*` and an outer join marks every relation of
\* the FROM clause, or it is a single `T.*` and an outer join marks T
ExpandsMarkedAlias ==
    /\ IsSelect
    /\ Len(Body.select.projection) = 1
    /\ LET item == Body.select.projection[1]
           from == Body.select.from
       IN \/ /\ item.item = "Wildcard"
             /\ \A f \in FromFactors(from) : MarkedNullable(from, f)
          \/ /\ item.item = "QualifiedWildcard"
             /\ \E f \in FromFactors(from) :
                   /\ MarkedNullable(from, f)
                   /\ \E a \in AliasOf(f) : SameName(a, item.name[1].value)

\* Nullable(t) where t is not itself Nullable
NullableOnce(t) == t.t = "Option" /\ t.inner.t # "Option"

\* C11: for `SELECT *` and `T.*` where the expanded alias is marked nullable
\* by an outer join, every column contributed by that alias has type
\* Nullable(t) with t not Nullable, for an alias bound to a schema table and
\* for one bound to a CTE, whether or not the column was nullable before.
C11_WildcardNullable ==
    ExpandsMarkedAlias /\ pc = "done" /\ result[1].ok =>
        \A i \in 1..Len(result[1].columns) : NullableOnce(result[1].columns[i].rust_type)

(***************************************************************************)
(* Nullability is monotone                                                 *)
(***************************************************************************)
IsNullableType(t) == t.t = "Option"

\* the catalog s with column i of the table under key k declared NOT NULL
DeclaredNotNull(s, k, i) ==
    [tables |-> [s.tables EXCEPT ![k] =
        Table(s.tables[k].name, [s.tables[k].columns EXCEPT ![i].nullable = FALSE])]]

\* the catalogs obtained from s by declaring one nullable column NOT NULL
NotNullVariants(s) ==
    UNION {{DeclaredNotNull(s, k, i) :
               i \in {j \in 1..Len(s.tables[k].columns) : s.tables[k].columns[j].nullable}} :
           k \in DOMAIN s.tables}

\* the column lists have the same names and no column of cols2 is Nullable
\* where the column of cols1 is not
NoNullableAdded(cols1, cols2) ==
    /\ Len(cols1) = Len(cols2)
    /\ \A i \in 1..Len(cols1) :
          /\ cols1[i].name = cols2[i].name
          /\ IsNullableType(cols2[i].rust_type) => IsNullableType(cols1[i].rust_type)

\* the FROM clause of a plain SELECT is resolved: ctx is the scope of its
\* projection
ScopeResolved == IsSelect /\ pc \in {"project", "done"} /\ next_from > Len(Body.select.from)

\* the results of the items of the projection in the scope c
ItemResults(c) ==
    [i \in 1..Len(Body.select.projection) |->
        select_item(schema, c, iter, Body.select.projection[i])]

\* marking the alias changes the type of a column of the projection
MarkChangesType(alias) ==
    \E i \in 1..Len(Body.select.projection) :
        /\ ItemResults(ctx)[i].ok
        /\ ItemResults(mark_nullable(ctx, alias))[i] # ItemResults(ctx)[i]

\* C12: nullability is monotone.  Adding an alias to the nullable aliases of
\* the scope never changes a column of the projection (typed by a direct
\* reference, `*` or `T.*`) from Nullable to non-Nullable, and declaring a
\* nullable source column NOT NULL never changes a result column from
\* non-Nullable to Nullable.
C12_NullabilityMonotone ==
    /\ ScopeResolved /\ pc = "project" =>
          \A alias \in DOMAIN ctx.table_aliases, i \in 1..Len(Body.select.projection) :
              ItemResults(ctx)[i].ok =>
                  /\ ItemResults(mark_nullable(ctx, alias))[i].ok
                  /\ NoNullableAdded(ItemResults(mark_nullable(ctx, alias))[i].columns,
                                     ItemResults(ctx)[i].columns)
    /\ pc = "done" /\ result[1].ok =>
          \A s2 \in NotNullVariants(schema) :
              \E r2 \in validate_query(s2, sql) :
                  r2.ok /\ NoNullableAdded(result[1].columns, r2.columns)

\* an alias bound to a CTE with a nullable column is marked and the column
\* of `*` changes its type
C12_Witness ==
    /\ ScopeResolved /\ pc = "project"
    /\ Body.select.projection = <<Wildcard>>
    /\ \E alias \in DOMAIN ctx.table_aliases :
          /\ starts_with(ctx.table_aliases[alias], cte_prefix)
          /\ ~is_nullable_table(ctx, alias)
          /\ MarkChangesType(alias)
          /\ \E i \in 1..Len(ItemResults(ctx)[1].columns) :
                IsNullableType(ItemResults(ctx)[1].columns[i].rust_type)

(***************************************************************************)
(* Letter case of identifiers                                              *)
(***************************************************************************)
\* the name written in upper case or in lower case
Recase(v, mode) ==
    IF mode = "upper" THEN to_uppercase(v) ELSE to_lowercase(v)

RecaseIdent(ident, mode) == [ident EXCEPT !.value = Recase(ident.value, mode)]

RecaseName(name, mode) == [i \in 1..Len(name) |-> RecaseIdent(name[i], mode)]

\* the expression with its column references written in the case of mode
RECURSIVE RecaseExpr(_, _)
RecaseExpr(e, mode) ==
    CASE e.expr = "Identifier" -> [e EXCEPT !.ident = RecaseIdent(e.ident, mode)]
      [] e.expr = "CompoundIdentifier" -> [e EXCEPT !.idents = RecaseName(e.idents, mode)]
      [] e.expr = "BinaryOp" ->
            [e EXCEPT !.left = RecaseExpr(e.left, mode), !.right = RecaseExpr(e.right, mode)]
      [] e.expr = "Nested" -> [e EXCEPT !.inner = RecaseExpr(e.inner, mode)]
      [] e.expr = "Function" ->
            [e EXCEPT !.args.args =
                [i \in 1..Len(e.args.args) |->
                    IF e.args.args[i].value.kind = "Expr"
                    THEN [e.args.args[i] EXCEPT !.value.expr = RecaseExpr(e.args.args[i].value.expr, mode)]
                    ELSE e.args.args[i]]]
      [] OTHER -> e

RecaseExprs(es, mode) == [i \in 1..Len(es) |-> RecaseExpr(es[i], mode)]

RecaseItem(item, mode) ==
    CASE item.item \in {"UnnamedExpr", "ExprWithAlias"} ->
            [item EXCEPT !.expr = RecaseExpr(item.expr, mode)]
      [] item.item = "QualifiedWildcard" -> [item EXCEPT !.name = RecaseName(item.name, mode)]
      [] OTHER -> item

RecaseFactor(f, mode) ==
    LET g == [f EXCEPT !.alias = RecaseName(f.alias, mode)]
    IN IF f.factor = "Table" THEN [g EXCEPT !.name = RecaseName(f.name, mode)] ELSE g

RecaseTableWithJoins(twj, mode, exprs) ==
    [relation |-> RecaseFactor(twj.relation, mode),
     joins |-> [j \in 1..Len(twj.joins) |->
                  [twj.joins[j] EXCEPT !.relation = RecaseFactor(twj.joins[j].relation, mode),
                                       !.constraint = RecaseExprs(twj.joins[j].constraint, exprs)]]]

\* the SELECT with the names of its FROM clause written in the case of
\* mode and its column references in the case of exprs
RecaseSelect(select, mode, exprs) ==
    [projection |-> [i \in 1..Len(select.projection) |-> RecaseItem(select.projection[i], exprs)],
     from |-> [i \in 1..Len(select.from) |-> RecaseTableWithJoins(select.from[i], mode, exprs)],
     selection |-> RecaseExprs(select.selection, exprs),
     group_by |-> RecaseExprs(select.group_by, exprs),
     having |-> RecaseExprs(select.having, exprs)]

RECURSIVE RecaseQuery(_, _, _), RecaseSetExpr(_, _, _)
RecaseSetExpr(body, mode, exprs) ==
    CASE body.set = "Select" -> [body EXCEPT !.select = RecaseSelect(body.select, mode, exprs)]
      [] body.set = "SetOperation" ->
            [body EXCEPT !.left = RecaseSetExpr(body.left, mode, exprs),
                         !.right = RecaseSetExpr(body.right, mode, exprs)]
      [] body.set = "Query" -> [body EXCEPT !.query = RecaseQuery(body.query, mode, exprs)]
      [] OTHER -> body

\* the query with its table names, aliases and CTE names written in the
\* case of mode and its column names in the case of exprs
RecaseQuery(query, mode, exprs) ==
    [with |-> [w \in 1..Len(query.with) |->
                 [cte_tables |->
                    [i \in 1..Len(query.with[w].cte_tables) |->
                        LET cte == query.with[w].cte_tables[i]
                        IN [alias |-> [name |-> RecaseIdent(cte.alias.name, mode),
                                       columns |->
                                           [j \in 1..Len(cte.alias.columns) |->
                                               [name |-> RecaseIdent(cte.alias.columns[j].name,
                                                                     exprs)]]],
                            query |-> RecaseQuery(cte.query, mode, exprs)]]]],
     body |-> RecaseSetExpr(query.body, mode, exprs),
     order_by |-> RecaseExprs(query.order_by, exprs)]

CaseModes == {"upper", "lower"}

\* the column lists have the same types, and the same names up to case
SameTypes(cols1, cols2) ==
    /\ Len(cols1) = Len(cols2)
    /\ \A i \in 1..Len(cols1) :
          /\ cols1[i].rust_type = cols2[i].rust_type
          /\ SameName(cols1[i].name, cols2[i].name)

\* the columns of a SELECT whose items are column references carry the
\* names written in the projection
SpelledAsProjected(query, cols) ==
    query.body.set = "Select" =>
        \A i \in 1..Len(query.body.select.projection) :
            LET item == query.body.select.projection[i]
            IN (\A j \in 1..Len(query.body.select.projection) :
                    query.body.select.projection[j].item = "UnnamedExpr")
               /\ item.expr.expr \in {"Identifier", "CompoundIdentifier"}
               => cols[i].name = RefColumn(item.expr)

\* C13: if a query validates, every query obtained from it by changing the
\* letter case of its table names, aliases, CTE names and column names also
\* validates, with the same column types, and each result column named by a
\* projected identifier carries the spelling used in the projection.
C13_CaseInsensitive ==
    IsQuery /\ pc = "done" /\ result[1].ok =>
        \A mode \in CaseModes, exprs \in CaseModes :
            \E r2 \in validate_select(schema, RecaseQuery(Statement.query, mode, exprs)) :
                /\ r2.ok
                /\ SameTypes(result[1].columns, r2.columns)
                /\ SpelledAsProjected(RecaseQuery(Statement.query, mode, exprs), r2.columns)

(***************************************************************************)
(* min and max                                                             *)
(***************************************************************************)
\* the type without its Nullable wrappers
RECURSIVE BaseType(_)
BaseType(t) == IF t.t = "Option" THEN BaseType(t.inner) ELSE t

IsMinMax(item) ==
    /\ item.item = "UnnamedExpr"
    /\ item.expr.expr = "Function"
    /\ to_lowercase(item.expr.name[1].value) \in {fn_min, fn_max}

FunctionArgs(item) == item.expr.args.args

\* the first argument of the call is a column reference
FirstArgIsColumn(item) ==
    /\ Len(FunctionArgs(item)) >= 1
    /\ FunctionArgs(item)[1].value.kind = "Expr"
    /\ IsColumnRef(FunctionArgs(item)[1].value.expr)

\* the first argument of the call is no expression
FirstArgUntyped(item) ==
    Len(FunctionArgs(item)) = 0 \/ FunctionArgs(item)[1].value.kind # "Expr"

\* the type the column reference has in the scope
ColumnType(e) == infer_expr_type(schema, ctx, iter, e).rust_type

\* C14: min(e) and max(e) whose first argument is a column reference that
\* resolves in scope have the type Nullable(T), T being the non-Nullable
\* mapping of the column's type: for a NOT NULL column, a nullable column, a
\* column of an outer-joined alias and an already-nullable CTE column read
\* through an outer-joined alias; when the first argument is no expression
\* (for example `*`) the type is Nullable(String).
C14_MinMax ==
    \A item \in Range(TypedItem) :
        IsMinMax(item) =>
            /\ FirstArgIsColumn(item) =>
                  columns[Len(columns)].rust_type =
                      RustOption(BaseType(ColumnType(FunctionArgs(item)[1].value.expr)))
            /\ FirstArgUntyped(item) =>
                  columns[Len(columns)].rust_type = RustOption([t |-> "String"])

(***************************************************************************)
(* The function-type table                                                 *)
(***************************************************************************)
IsFunctionItem(item) == item.item = "UnnamedExpr" /\ item.expr.expr = "Function"

\* the functions whose type depends on the first argument
ArgumentTyped == {fn_min, fn_max, fn_coalesce}

\* the result type the function-type table gives the lower-cased name
TableType(name) ==
    IF name = fn_count THEN [t |-> "I64"]
    ELSE IF name \in {fn_sum, fn_avg} THEN [t |-> "Option", inner |-> [t |-> "Decimal"]]
    ELSE IF name \in DateTimeFunctions THEN [t |-> "DateTime"]
    ELSE IF name \in DateFunctions THEN [t |-> "Date"]
    ELSE IF name \in TimeFunctions THEN [t |-> "Time"]
    ELSE IF name \in DurationFunctions THEN [t |-> "Duration"]
    ELSE IF name \in StringFunctions THEN [t |-> "String"]
    ELSE IF name \in I32Functions THEN [t |-> "I32"]
    ELSE IF name \in F64Functions THEN [t |-> "F64"]
    ELSE [t |-> "Custom", name |-> name]

RecordedColumns(i) == get_cte(ctx, CteTables[i].alias.name.value)[1].columns

\* recorded is the column list cols with the names of the aliases in the
\* positions that have one
Renamed(recorded, cols, aliases) ==
    /\ Len(recorded) = Len(cols)
    /\ \A j \in 1..Len(cols) :
          /\ recorded[j].rust_type = cols[j].rust_type
          /\ recorded[j].name = IF j <= Len(aliases) THEN aliases[j].name.value
                                ELSE cols[j].name

\* C16: for WITH c(a1..ak) AS (Q) the column list recorded for c has the
\* length and the types, in order, of the columns inferred for Q; only the
\* names are replaced, position by position, where there is an alias, for
\* every k, also when k is smaller than the number of columns of Q.
C16_CteColumnAliases ==
    IsQuery =>
        \A i \in 1..(next_cte - 1) :
            Len(CteTables[i].alias.columns) > 0 =>
                \E r \in validate_select(schema, CteTables[i].query) :
                    /\ r.ok
                    /\ Renamed(RecordedColumns(i), r.columns, CteTables[i].alias.columns)

(***************************************************************************)
(* C17: after Schema::from_sql, every column of the catalog with           *)
(* is_primary_key = true has nullable = false, whatever the sequence of    *)
(* inline options of the column and for the columns an out-of-line         *)
(* PRIMARY KEY names.                                                      *)
(***************************************************************************)
Loaded == pc \notin {"load", "schema_error"}

C17_PrimaryKeyNotNull ==
    Loaded =>
        \A k \in DOMAIN schema.tables :
            \A i \in 1..Len(schema.tables[k].columns) :
                schema.tables[k].columns[i].is_primary_key
                    => ~schema.tables[k].columns[i].nullable

(***************************************************************************)
(* C18: a table created under a schema-qualified name s.t is stored under  *)
(* its last part t: get_table(t) finds it, and a query whose FROM names    *)
(* the table (the name reduced to its last part) is not rejected as        *)
(* naming an unknown table.                                                *)
(***************************************************************************)
LastPart(name) == name[Len(name)].value

CreatedNames ==
    {ddl.statements[i].name :
        i \in {j \in 1..Len(ddl.statements) : ddl.statements[j].stmt = "CreateTable"}}

ReadsCreated ==
    /\ IsQuery
    /\ \E t \in FromNames(Statement.query), created \in CreatedNames : t = LastPart(created)

C18_QualifiedName ==
    Loaded =>
        /\ \A name \in CreatedNames : has_table(schema, LastPart(name))
        /\ pc = "done" /\ ReadsCreated
              => ~(~result[1].ok /\ result[1].err.kind = "UnknownTable")

(***************************************************************************)
(* C19: after Schema::from_sql on any sequence of CREATE TABLE statements, *)
(* no two tables of the catalog have names equal under case folding, and   *)
(* get_table returns the same table for every letter-case variant of a     *)
(* table's name.                                                           *)
(***************************************************************************)
CaseVariants(name) == {name, to_lowercase(name), to_uppercase(name)}

\* the validator's lookups never meet two matches
LookupDetermined ==
    pc = "done" /\ IsQuery =>
        \A t \in FromNames(Statement.query) : Cardinality(get_table_results(schema, t)) = 1

C19_CaseFoldedNames ==
    Loaded =>
        /\ \A k1, k2 \in DOMAIN schema.tables :
              to_lowercase(k1) = to_lowercase(k2) => k1 = k2
        /\ \A k \in DOMAIN schema.tables :
              \A v \in CaseVariants(k) :
                  get_table_results(schema, v) = {Some(schema.tables[k])}

(***************************************************************************)
(* C20: PostgresType::from_sql_name is total: for every string, malformed  *)
(* length qualifiers after a char or varchar prefix, the empty string and  *)
(* nested [] and ARRAY suffixes included, the call returns a PostgresType  *)
(* and does not panic.                                                     *)
(***************************************************************************)
PostgresTypes ==
    {"SmallInt", "Integer", "BigInt", "Real", "DoublePrecision", "Numeric", "Text",
     "Varchar", "Char", "Bytea", "Boolean", "Timestamp", "TimestampTz", "Date", "Time",
     "TimeTz", "Interval", "Uuid", "Json", "Jsonb", "Inet", "Cidr", "MacAddr", "Array",
     "Custom"}

C20_FromSqlNameTotal ==
    pc = "returned" => postgres_type[1].t \in PostgresTypes

(***************************************************************************)
(* C21: from_sql_name maps each textual form of a listed type to that      *)
(* type, in any letter case: the names of the table, varchar(n) and        *)
(* char(n) with their length, T[] and T ARRAY as Array of what T parses    *)
(* to.  Every other name is Custom(name): the name of a user-defined type  *)
(* is never classified as a built-in type.                                 *)
(***************************************************************************)
Lowered == trim(to_lowercase(type_name))

\* prefix(n) with n a number that fits a u32
LengthForm(s, prefix) ==
    /\ starts_with(s, prefix)
    /\ Len(s) >= Len(prefix) + 3
    /\ s[Len(prefix) + 1] = "(" /\ s[Len(s)] = ")"
    /\ \A i \in (Len(prefix) + 2)..(Len(s) - 1) : is_digit(s[i])
    /\ parse_u32(SubSeq(s, Len(prefix) + 2, Len(s) - 1)) # None

LengthOf(s, prefix) == parse_u32(SubSeq(s, Len(prefix) + 2, Len(s) - 1))

\* a name a user-defined type can have: letters, digits and underscores
IdentifierLike(s) ==
    /\ Len(s) > 0
    /\ \A i \in 1..Len(s) :
          \/ \E j \in 1..Len(AsciiLower) : AsciiLower[j] = s[i]
          \/ is_digit(s[i])
          \/ s[i] \in {"_", "é"}

BuiltInNames ==
    UNION {SqlNames[t] : t \in DOMAIN SqlNames}
    \cup {s_varchar, s_char, s_character, s_character_varying}

C21_FromSqlName ==
    pc = "returned" =>
        /\ \A t \in DOMAIN SqlNames : Lowered \in SqlNames[t] => postgres_type[1] = [t |-> t]
        /\ \A prefix \in {s_varchar, s_character_varying} :
              LengthForm(Lowered, prefix)
                  => postgres_type[1] = [t |-> "Varchar", len |-> LengthOf(Lowered, prefix)]
        /\ \A prefix \in {s_char, s_character} :
              LengthForm(Lowered, prefix)
                  => postgres_type[1] = [t |-> "Char", len |-> LengthOf(Lowered, prefix)]
        /\ ends_with(Lowered, s_brackets) \/ ends_with(Lowered, s_array_suffix)
              => postgres_type[1].t \in {"Array", "panic"}
        /\ IdentifierLike(Lowered) /\ Lowered \notin BuiltInNames
              => postgres_type[1] = [t |-> "Custom", name |-> Lowered]

(***************************************************************************)
(* C22: a SELECT whose projection list is empty is rejected with           *)
(* InvalidQuery, and every query validate_query accepts returns at least   *)
(* one column, `SELECT *` with no FROM clause or over a derived table      *)
(* only included.                                                          *)
(***************************************************************************)
C22_NonEmptyResult ==
    pc = "done" /\ IsQuery =>
        /\ Body.set = "Select" /\ Len(Body.select.projection) = 0
              => ~result[1].ok /\ result[1].err.kind = "InvalidQuery"
        /\ result[1].ok => Len(result[1].columns) >= 1

(***************************************************************************)
(* C23: every error validate_query returns is QueryParse, UnknownTable,    *)
(* UnknownColumn, AmbiguousColumn or InvalidQuery; it returns no           *)
(* TypeMismatch, Io or SchemaParse, whatever the catalog and the SQL.      *)
(***************************************************************************)
ValidatorErrors ==
    {"QueryParse", "UnknownTable", "UnknownColumn", "AmbiguousColumn", "InvalidQuery"}

C23_ErrorKinds ==
    pc = "done" /\ ~result[1].ok => result[1].err.kind \in ValidatorErrors

\* a query is rejected for a table the catalog does not hold
C23_Witness ==
    pc = "done" /\ ~result[1].ok /\ result[1].err.kind = "UnknownTable"

(***************************************************************************)
(* C24: validate_query is a function of the schema and the SQL: every      *)
(* other invocation with the same inputs returns the outcome this one      *)
(* returned, whatever the iteration order of the hash maps.                *)
(***************************************************************************)
C24_Deterministic ==
    pc = "done" => \A r \in validate_query(schema, sql) : r = result[1]

(***************************************************************************)
(* C25: query! accepts a validated query exactly when the number of        *)
(* parameter expressions equals the largest N over all `$N` found by a     *)
(* plain character scan of the SQL string (0 when there is none);          *)
(* count_placeholders returns that maximum for every string, and every     *)
(* other number of parameters yields `Expected N parameter(s) but got M`.  *)
(***************************************************************************)
\* the positions of the `$` characters that a digit follows
PlaceholderStarts(s) == {i \in 1..Len(s) : s[i] = "$" /\ i < Len(s) /\ is_digit(s[i + 1])}

\* the number written after the `$` at position i: all the digits that follow it
NumberAt(s, i) ==
    canonical(SubSeq(s, i + 1,
                     CHOOSE j \in (i + 1)..Len(s) :
                        /\ \A k \in (i + 1)..j : is_digit(s[k])
                        /\ j = Len(s) \/ ~is_digit(s[j + 1])))

PlaceholderNumbers(s) == {NumberAt(s, i) : i \in PlaceholderStarts(s)}

LargestPlaceholder(s) ==
    IF PlaceholderNumbers(s) = {} THEN zero
    ELSE CHOOSE n \in PlaceholderNumbers(s) : \A m \in PlaceholderNumbers(s) : ~number_less(n, m)

C25_ParameterCount ==
    (pc \in {"generated", "compile_error"} /\ result[1].ok) =>
        /\ count_placeholders(text) = LargestPlaceholder(text)
        /\ pc = "generated" <=> usize_of(params) = LargestPlaceholder(text)
        /\ pc = "compile_error" =>
              expansion[1] = ExpectedParameters(LargestPlaceholder(text), usize_of(params))

\* the same for the strings whose placeholder numbers all fit a usize
C25_WithinUsize ==
    (\A n \in PlaceholderNumbers(text) : ~number_less(usize_MAX, n)) => C25_ParameterCount

\* the string of the compile_fail test was expanded with its one parameter
C25_Rejected ==
    /\ pc = "compile_error"
    /\ result[1].ok
    /\ LargestPlaceholder(text) = <<"2">>
    /\ params = 1

(***************************************************************************)
(* C29: for every query the macro accepts, the fields of the generated     *)
(* result struct have pairwise distinct names: sanitize_field_name over    *)
(* the result columns never yields the same identifier twice.              *)
(***************************************************************************)
C29_DistinctFields ==
    pc = "generated" =>
        \A i, j \in 1..Len(expansion[1].fields) :
            i # j => expansion[1].fields[i] # expansion[1].fields[j]

\* the generated fields are the sanitized names of the returned columns, in order
C29_FieldPerColumn ==
    pc = "generated" =>
        /\ Len(expansion[1].fields) = Len(result[1].columns)
        /\ \A i \in 1..Len(result[1].columns) :
              expansion[1].fields[i] = sanitize_field_name(result[1].columns[i].name)

(***************************************************************************)
(* C26: in every scope that FROM resolution produces without error, the    *)
(* alias keys are unique under case folding, every alias (those of derived *)
(* tables included) is bound to a table of the schema or to a CTE of the   *)
(* scope's CTE map, and every alias marked nullable is a key of the alias  *)
(* map.                                                                    *)
(***************************************************************************)
\* the FROM clause of the statement's SELECT was resolved without error
FromResolved == pc = "project"

AliasKeys == DOMAIN ctx.table_aliases

UniqueAliasKeys ==
    \A a, b \in AliasKeys : to_lowercase(a) = to_lowercase(b) => a = b

\* what an alias is bound to is a table of the schema or a CTE of the scope
Bound(target) ==
    \/ has_table(schema, target)
    \/ /\ starts_with(target, cte_prefix)
       /\ strip_prefix(target, cte_prefix)[1] \in DOMAIN ctx.cte_definitions

BoundAliases == \A a \in AliasKeys : Bound(ctx.table_aliases[a])

NullableAreKeys ==
    \A i \in 1..Len(ctx.nullable_tables) : ctx.nullable_tables[i] \in AliasKeys

C26_Scope == FromResolved => UniqueAliasKeys /\ BoundAliases /\ NullableAreKeys

\* the parts of C26 about the keys and the marks alone
C26_KeysAndMarks == FromResolved => UniqueAliasKeys /\ NullableAreKeys

\* the aliases of tables and CTEs are bound as C26 has it
C26_NamedAliasesBound ==
    FromResolved =>
        \A a \in AliasKeys : ctx.table_aliases[a] # subquery_marker => Bound(ctx.table_aliases[a])

(***************************************************************************)
(* C27: the catalog builder and the SQL-type parser agree: for every       *)
(* column type of a CREATE TABLE, the type data_type_to_postgres gives is  *)
(* from_sql_name of the type's text.                                       *)
(***************************************************************************)
\* the words a DataType is written with
TypeWords ==
    [SmallInt |-> <<"s","m","a","l","l","i","n","t">>,
     Int |-> <<"i","n","t">>,
     Integer |-> <<"i","n","t","e","g","e","r">>,
     BigInt |-> <<"b","i","g","i","n","t">>,
     Real |-> <<"r","e","a","l">>,
     Double |-> <<"d","o","u","b","l","e">>,
     DoublePrecision |-> <<"d","o","u","b","l","e"," ","p","r","e","c","i","s","i","o","n">>,
     Numeric |-> <<"n","u","m","e","r","i","c">>,
     Decimal |-> <<"d","e","c","i","m","a","l">>,
     Text |-> <<"t","e","x","t">>,
     Bytea |-> <<"b","y","t","e","a">>,
     Boolean |-> <<"b","o","o","l","e","a","n">>,
     Bool |-> <<"b","o","o","l">>,
     Date |-> <<"d","a","t","e">>,
     Interval |-> <<"i","n","t","e","r","v","a","l">>,
     Uuid |-> <<"u","u","i","d">>,
     JSON |-> <<"j","s","o","n">>,
     JSONB |-> <<"j","s","o","n","b">>,
     Varchar |-> <<"v","a","r","c","h","a","r">>,
     CharacterVarying |-> <<"c","h","a","r","a","c","t","e","r"," ","v","a","r","y","i","n","g">>,
     Char |-> <<"c","h","a","r">>,
     Character |-> <<"c","h","a","r","a","c","t","e","r">>,
     Timestamp |-> <<"t","i","m","e","s","t","a","m","p">>,
     Time |-> <<"t","i","m","e">>,
     Regclass |-> <<"r","e","g","c","l","a","s","s">>,
     Int2 |-> <<"i","n","t","2">>,
     Int4 |-> <<"i","n","t","4">>,
     Int8 |-> <<"i","n","t","8">>]

\* (n) or (MAX) after a character type
length_text(len) ==
    IF len = None THEN <<>>
    ELSE IF len[1].kind = "IntegerLength" THEN <<"(">> \o usize_of(len[1].length) \o <<")">>
    ELSE <<"(","m","a","x",")">>

\* WITH TIME ZONE, WITHOUT TIME ZONE or nothing after TIMESTAMP and TIME
tz_text(tz) ==
    CASE tz = "WithTimeZone" -> <<" ","w","i","t","h"," ","t","i","m","e"," ","z","o","n","e">>
      [] tz = "WithoutTimeZone" -> <<" ","w","i","t","h","o","u","t"," ","t","i","m","e"," ","z","o","n","e">>
      [] OTHER -> <<>>

\* the text of a column type in the DDL
RECURSIVE type_text(_)
type_text(dt) ==
    CASE dt.dt = "Array" ->
            IF dt.elem.def = "SquareBracket" THEN type_text(dt.elem.inner) \o <<"[","]">>
            ELSE IF dt.elem.def = "AngleBracket"
            THEN <<"a","r","r","a","y","<">> \o type_text(dt.elem.inner) \o <<">">>
            ELSE IF dt.elem.def = "Parenthesis"
            THEN <<"a","r","r","a","y","(">> \o type_text(dt.elem.inner) \o <<")">>
            ELSE <<"a","r","r","a","y">>
      [] dt.dt = "Custom" -> object_name_to_string(dt.name)
      [] dt.dt \in {"Varchar", "CharacterVarying", "Char", "Character"} ->
            TypeWords[dt.dt] \o length_text(dt.len)
      [] dt.dt \in {"Timestamp", "Time"} ->
            IF dt.tz = "Tz" THEN TypeWords[dt.dt] \o <<"t","z">>
            ELSE TypeWords[dt.dt] \o tz_text(dt.tz)
      [] dt.dt = "Numeric" /\ "info" \in DOMAIN dt ->
            TypeWords[dt.dt] \o <<"(">> \o usize_of(dt.info[1]) \o <<",">>
                \o usize_of(dt.info[2]) \o <<")">>
      [] OTHER -> TypeWords[dt.dt]

\* a table whose columns got their types from the DDL's CREATE TABLE
TypedTable == Loaded /\ ddl \in TypeDdls

ColumnTypeAgrees(column, def) == column.data_type = from_sql_name(type_text(def.data_type))

C27_TypesAgree ==
    TypedTable =>
        \A name \in DOMAIN schema.tables :
            \A i \in 1..Len(schema.tables[name].columns) :
                ColumnTypeAgrees(schema.tables[name].columns[i], ddl.statements[1].columns[i])

\* the types for which both conversions give one PostgresType
AgreeingTypes ==
    {dt \in DataTypes \cup ArrayTypes :
        data_type_to_postgres(dt).ok
        /\ data_type_to_postgres(dt).type = from_sql_name(type_text(dt))}

(***************************************************************************)
(* C28: a CTE column referenced by a qualified identifier through an alias *)
(* marked by an outer join gets exactly one more Option: a column of type  *)
(* Option(t) has type Option(Option(t)), with no normalization, and a      *)
(* column of a type t that is no Option has type Option(t).                *)
(***************************************************************************)
\* the item of the projection that was handled last
LastItem == Body.select.projection[next_item - 1]

LastAlias == LastItem.expr.idents[1].value

\* the CTE the alias of the last item is bound to
LastCte == ctx.cte_definitions[strip_prefix(ctx.table_aliases[to_lowercase(LastAlias)], cte_prefix)[1]]

\* the positions of the CTE's columns the last item names
NamedCteColumns ==
    {i \in 1..Len(LastCte.columns) :
        eq_ignore_ascii_case(LastCte.columns[i].name, LastItem.expr.idents[2].value)}

\* the first column of the CTE that the last item names
NamedCteColumn == LastCte.columns[CHOOSE i \in NamedCteColumns : \A j \in NamedCteColumns : i <= j]

\* the last item is alias.column, the alias is bound to a CTE and marked
\* nullable, and the CTE has the column
QualifiedThroughMarkedCte ==
    /\ IsSelect
    /\ next_item > 1
    /\ LastItem.item \in {"UnnamedExpr", "ExprWithAlias"}
    /\ LastItem.expr.expr = "CompoundIdentifier"
    /\ Len(LastItem.expr.idents) = 2
    /\ to_lowercase(LastAlias) \in DOMAIN ctx.table_aliases
    /\ starts_with(ctx.table_aliases[to_lowercase(LastAlias)], cte_prefix)
    /\ is_nullable_table(ctx, LastAlias)
    /\ NamedCteColumns # {}

C28_WitnessPlain ==
    /\ QualifiedThroughMarkedCte
    /\ NamedCteColumn.rust_type.t # "Option"
    /\ columns[Len(columns)].rust_type = RustOption(NamedCteColumn.rust_type)

(***************************************************************************)
(* C30: the target of an INSERT is resolved as the target of an UPDATE or  *)
(* DELETE and a table of FROM are: by the last part of the name, without   *)
(* its quoting characters and without regard to case; every name accepted  *)
(* as the target of an UPDATE, schema-qualified and double-quoted names    *)
(* included, is accepted as the target of an INSERT and resolves to the    *)
(* same table.                                                             *)
(***************************************************************************)
\* UPDATE <the INSERT's target> SET id = ...
UpdateOfTarget == Update(Target(Statement.table), <<ColumnName(s_id)>>, None)

\* validate_update does not reject the target of UpdateOfTarget
UpdateAcceptsTarget ==
    ~(~validate_update(schema, UpdateOfTarget).ok
      /\ validate_update(schema, UpdateOfTarget).err.kind \in {"UnknownTable", "InvalidQuery"})

\* the table the target of UpdateOfTarget resolves to
UpdateTargetTable ==
    get_table(schema, extract_table_name_from_table_with_joins(Target(Statement.table)).name)[1]

InsertReturned == pc = "done" /\ IsDml({"Insert"}) /\ Len(Statement.table) > 0

C30_InsertTarget ==
    InsertReturned /\ UpdateAcceptsTarget =>
        /\ ~(~result[1].ok /\ result[1].err.kind = "UnknownTable")
        /\ Statement.returning = Some(<<Wildcard>>) /\ result[1].ok =>
              result[1].columns = table_columns(UpdateTargetTable, FALSE)

\* the same for the names of one unquoted part
C30_PlainNames ==
    (InsertReturned /\ Len(Statement.table) = 1 /\ Statement.table[1].quote_style = "none")
        => C30_InsertTarget

\* an INSERT with RETURNING * into a table named in another case was accepted
C30_PlainAccepted ==
    /\ InsertReturned
    /\ Statement.table = <<Ident(s_Users_cap)>>
    /\ Statement.returning = Some(<<Wildcard>>)
    /\ result[1].ok

====
